---------------------------- MODULE Spec2Model ----------------------------
(***************************************************************************)
(* A model of the lobbying-disclosure extractor (src/extractor.py).        *)
(*                                                                         *)
(* Text is a sequence of tokens (a token is a word, a number, a            *)
(* punctuation mark or one blank " "); substring tests, strip() and        *)
(* replace() work on tokens.  A document is what BeautifulSoup sees: the   *)
(* header span, the spans looked up by id, and the elements of the body    *)
(* in document order (label cells, label <strong>s, lobbyist-name spans,   *)
(* tables).  A table is a sequence of rows, a row a sequence of cells.     *)
(*                                                                         *)
(* A label element carries the text of the element find_next_sibling()     *)
(* reaches from it; the cells of tables and the sibling cells hold no text *)
(* that starts with "Lobbyist:" or "Client:", so the label cells of the    *)
(* body are the only matches of find_previous().  Tables are not nested.   *)
(***************************************************************************)
EXTENDS Integers, Sequences, FiniteSets, TLC

(***************************************************************************)
(* Bounds of the model.                                                    *)
(***************************************************************************)
MaxFiles == 2
MaxElems == 3
MaxTables == 2
MaxValue == 2
MaxUrls == 2

(***************************************************************************)
(* Python values.                                                          *)
(***************************************************************************)
\* Python's None where a text is expected (never a token of a real text).
PyNone == <<"<None>">>
EmptyText == << >>
Sp == " "

RECURSIVE Concat(_)
\* "".join(parts)
Concat(parts) ==
    IF parts = << >> THEN << >> ELSE Head(parts) \o Concat(Tail(parts))

RECURSIVE LStrip(_)
LStrip(t) == IF t # << >> /\ Head(t) = Sp THEN LStrip(Tail(t)) ELSE t

RECURSIVE RStrip(_)
RStrip(t) ==
    IF t # << >> /\ t[Len(t)] = Sp THEN RStrip(SubSeq(t, 1, Len(t) - 1)) ELSE t

\* str.strip()
Strip(t) == RStrip(LStrip(t))

\* phrase in text
Contains(t, phrase) ==
    \E k \in 1..(Len(t) + 1) :
        /\ k + Len(phrase) - 1 <= Len(t)
        /\ SubSeq(t, k, k + Len(phrase) - 1) = phrase

RECURSIVE Replace(_, _, _)
\* str.replace(old, new), old non-empty: every occurrence, left to right
Replace(t, old, new) ==
    IF Len(t) < Len(old) THEN t
    ELSE IF SubSeq(t, 1, Len(old)) = old
         THEN new \o Replace(SubSeq(t, Len(old) + 1, Len(t)), old, new)
         ELSE <<Head(t)>> \o Replace(Tail(t), old, new)

\* f"{a} {b}".strip()
FullName(a, b) == Strip(a \o <<Sp>> \o b)

\* Tag.get_text(strip=True) of an element holding one string
GetTextStrip(raw) == Strip(raw)

(***************************************************************************)
(* Normalizers.                                                            *)
(***************************************************************************)
\* A float: a finite amount counted in cents, or one of Python's specials.
Num(c) == [kind |-> "num", cents |-> c]
NaN == [kind |-> "nan", cents |-> 0]
PosInf == [kind |-> "inf", cents |-> 0]

\* The number tokens of the model and what float() makes of them.
NumberTokens == {"0", "5", "12", "1234.50"}
NumberCents(tok) ==
    CASE tok = "0" -> 0
      [] tok = "5" -> 500
      [] tok = "12" -> 1200
      [] tok = "1234.50" -> 123450
      [] OTHER -> 0

\* float(s): the parsed value, or "ValueError"
PyFloat(s) ==
    CASE Len(s) = 1 /\ s[1] \in NumberTokens -> Num(NumberCents(s[1]))
      [] Len(s) = 2 /\ s[1] = "-" /\ s[2] \in NumberTokens -> Num(0 - NumberCents(s[2]))
      [] Len(s) = 2 /\ s[1] = "+" /\ s[2] \in NumberTokens -> Num(NumberCents(s[2]))
      [] Len(s) = 2 /\ s = <<"1", "234.50">> -> Num(123450)
      [] Len(s) = 1 /\ s[1] = "nan" -> NaN
      [] Len(s) = 1 /\ s[1] = "inf" -> PosInf
      [] OTHER -> [kind |-> "ValueError", cents |-> 0]

clean_currency(text) ==
    IF text = PyNone \/ Strip(text) = EmptyText THEN Num(0)
    ELSE LET v == PyFloat(Strip(Replace(Replace(text, <<"$">>, << >>), <<",">>, << >>)))
         IN  IF v.kind = "ValueError" THEN Num(0) ELSE v

\* The date tokens of the model: month/day/year, and the ISO form of each.
DateTokens == {"01/02/2024", "03/04/2024"}
IsoOf(tok) ==
    CASE tok = "01/02/2024" -> <<"2024-01-02">>
      [] tok = "03/04/2024" -> <<"2024-03-04">>
      [] OTHER -> PyNone

\* pd.to_datetime(s, format='%m/%d/%Y').strftime('%Y-%m-%d'), or "ValueError"
StrictDate(s) ==
    IF Len(s) = 1 /\ s[1] \in DateTokens THEN IsoOf(s[1]) ELSE <<"ValueError">>

RECURSIVE Split(_, _)
\* str.split(sep) for a one-token separator: the parts between the separators
Split(t, sep) ==
    IF \A k \in 1..Len(t) : t[k] # sep THEN <<t>>
    ELSE LET k == CHOOSE j \in 1..Len(t) :
                      t[j] = sep /\ \A h \in 1..(j - 1) : t[h] # sep
         IN  <<SubSeq(t, 1, k - 1)>> \o Split(SubSeq(t, k + 1, Len(t)), sep)

parse_date_range(date_string) ==
    LET parts == Split(date_string, "-")
    IN  IF Len(parts) # 2 THEN <<PyNone, PyNone>>
        ELSE LET s == StrictDate(Strip(parts[1]))
                 e == StrictDate(Strip(parts[2]))
             IN  IF s = <<"ValueError">> \/ e = <<"ValueError">>
                 THEN <<PyNone, PyNone>>
                 ELSE <<s, e>>

format_date(date_string) ==
    IF date_string = PyNone \/ Strip(date_string) = EmptyText THEN PyNone
    ELSE LET s == Strip(date_string)
         IN  IF Len(s) = 1 /\ s[1] \in DateTokens THEN IsoOf(s[1]) ELSE PyNone

(***************************************************************************)
(* The markup tree.                                                        *)
(***************************************************************************)
\* An element of the body.  `string` is the element's own text, `sibling`
\* the text of the element that find_next_sibling() reaches from it (PyNone
\* when there is none), `rows` the rows of a table.
Td(string, sibling) ==
    [tag |-> "td", id |-> "", string |-> string, sibling |-> sibling, rows |-> << >>]
Strong(string, sibling) ==
    [tag |-> "strong", id |-> "", string |-> string, sibling |-> sibling, rows |-> << >>]
Span(id, string) ==
    [tag |-> "span", id |-> id, string |-> string, sibling |-> PyNone, rows |-> << >>]
Table(id, rows) ==
    [tag |-> "table", id |-> id, string |-> << >>, sibling |-> PyNone, rows |-> rows]
\* What find() returns when nothing matches.
NoElement ==
    [tag |-> "", id |-> "", string |-> << >>, sibling |-> PyNone, rows |-> << >>]

\* The ids of the spans read by id.
SpanIds ==
    {"lblYear", "lblLobbyistCompany", "lblLobbyistFirstName", "lblLobbyistLastName",
     "lblIncidental", "lblClientCompany", "lblClientAuthorizingOfficerFirstName",
     "lblClientAuthorizingOfficerLastName", "lblBusinessInterest"}

\* Table.get_text() of a row and of a table: the cells' texts, joined.
RowText(row) == Concat(row)
TableText(table) == Concat([k \in 1..Len(table.rows) |-> RowText(table.rows[k])])

\* rows[1:]
DataRows(rows) == IF rows = << >> THEN << >> ELSE Tail(rows)

\* soup.find('table', id=...): the first table of that id, or NoElement
FindTable(soup, id) ==
    IF \E k \in 1..Len(soup.body) : soup.body[k].tag = "table" /\ soup.body[k].id = id
    THEN soup.body[CHOOSE k \in 1..Len(soup.body) :
                      /\ soup.body[k].tag = "table" /\ soup.body[k].id = id
                      /\ \A h \in 1..(k - 1) :
                            ~(soup.body[h].tag = "table" /\ soup.body[h].id = id)]
    ELSE NoElement

\* soup.find_all('table', id=...): the positions of the tables of that id, in
\* document order
RECURSIVE FindAllTablesFrom(_, _, _)
FindAllTablesFrom(soup, id, k) ==
    IF k > Len(soup.body) THEN << >>
    ELSE (IF soup.body[k].tag = "table" /\ soup.body[k].id = id THEN <<k>> ELSE << >>)
         \o FindAllTablesFrom(soup, id, k + 1)
FindAllTables(soup, id) == FindAllTablesFrom(soup, id, 1)

\* re.compile(r'^\s*Lobbyist:') / re.compile(r'^\s*Client:\s*') on a string
StartsWithLabel(string, label) ==
    LET s == LStrip(string) IN s # << >> /\ Head(s) = label

\* table.find_previous(tag, text=re.compile(label pattern)): the position of
\* the nearest element before position p that matches, or 0
FindPreviousLabel(soup, p, tag, label) ==
    LET hits == {q \in 1..(p - 1) :
                    soup.body[q].tag = tag /\ StartsWithLabel(soup.body[q].string, label)}
    IN  IF hits = {} THEN 0 ELSE CHOOSE q \in hits : \A h \in hits : h <= q

\* table.find_previous('span', id=re.compile(r'lblLobbyistName'))
FindPreviousNameSpan(soup, p) ==
    LET hits == {q \in 1..(p - 1) :
                    soup.body[q].tag = "span" /\ soup.body[q].id = "lblLobbyistName"}
    IN  IF hits = {} THEN 0 ELSE CHOOSE q \in hits : \A h \in hits : h <= q

safe_get_text(soup, tag, element_id) ==
    IF soup.spans[element_id] = PyNone THEN EmptyText
    ELSE GetTextStrip(soup.spans[element_id])

(***************************************************************************)
(* Table extractors.                                                       *)
(***************************************************************************)
\* MetRecord taking every row of six cells or more for the six-column layout.
MetRecordSixOrMore(cols, disclosure_id, lobbyist_name) ==
    LET has_lobbyist_col == Len(cols) >= 6
    IN  [disclosure_id |-> disclosure_id,
         lobbyist_name |-> IF has_lobbyist_col THEN GetTextStrip(cols[2])
                           ELSE IF lobbyist_name \in {PyNone, EmptyText}
                                THEN <<"N/A">> ELSE lobbyist_name,
         date |-> format_date(GetTextStrip(cols[1])),
         event_type |-> IF has_lobbyist_col THEN GetTextStrip(cols[3])
                        ELSE GetTextStrip(cols[2]),
         payee_vendor |-> IF has_lobbyist_col THEN GetTextStrip(cols[4])
                          ELSE GetTextStrip(cols[3]),
         attendees |-> IF has_lobbyist_col THEN GetTextStrip(cols[5])
                       ELSE GetTextStrip(cols[4]),
         amount |-> IF has_lobbyist_col THEN clean_currency(GetTextStrip(cols[6]))
                    ELSE clean_currency(GetTextStrip(cols[5]))]

MetRecord(cols, disclosure_id, lobbyist_name) ==
    LET has_lobbyist_col == Len(cols) = 6
    IN  [disclosure_id |-> disclosure_id,
         lobbyist_name |-> IF has_lobbyist_col THEN GetTextStrip(cols[2])
                           ELSE IF lobbyist_name \in {PyNone, EmptyText}
                                THEN <<"N/A">> ELSE lobbyist_name,
         date |-> format_date(GetTextStrip(cols[1])),
         event_type |-> IF has_lobbyist_col THEN GetTextStrip(cols[3])
                        ELSE GetTextStrip(cols[2]),
         payee_vendor |-> IF has_lobbyist_col THEN GetTextStrip(cols[4])
                          ELSE GetTextStrip(cols[3]),
         attendees |-> IF has_lobbyist_col THEN GetTextStrip(cols[5])
                       ELSE GetTextStrip(cols[4]),
         amount |-> IF has_lobbyist_col THEN clean_currency(GetTextStrip(cols[6]))
                    ELSE clean_currency(GetTextStrip(cols[5]))]

MetRowSkipped(row) == Contains(RowText(row), <<"Total", Sp, "amount">>) \/ Len(row) < 5

MetNoData == <<"No meals, travel, or entertainment expenses">>

\* parse_met_expenses without the test for the "no data" phrase.
parse_met_expenses_any_text(table, disclosure_id, lobbyist_name) ==
    IF table # NoElement
    THEN LET kept == SelectSeq(DataRows(table.rows), LAMBDA r : ~MetRowSkipped(r))
         IN  [k \in 1..Len(kept) |-> MetRecord(kept[k], disclosure_id, lobbyist_name)]
    ELSE << >>

parse_met_expenses(table, disclosure_id, lobbyist_name) ==
    IF table # NoElement /\ ~Contains(TableText(table), MetNoData)
    THEN LET kept == SelectSeq(DataRows(table.rows), LAMBDA r : ~MetRowSkipped(r))
         IN  [k \in 1..Len(kept) |-> MetRecord(kept[k], disclosure_id, lobbyist_name)]
    ELSE << >>

OperatingNoData == <<"No operating expenses were filed">>

OperatingRowSkipped(row) ==
    Contains(RowText(row), <<"Total", Sp, "operating", Sp, "expenses">>) \/ Len(row) < 4

\* OperatingRecord with the identifier left out.
OperatingRecordUnstamped(cols, disclosure_id) ==
    [disclosure_id |-> PyNone,
     date |-> format_date(GetTextStrip(cols[1])),
     recipient |-> GetTextStrip(cols[2]),
     type_of_expense |-> GetTextStrip(cols[3]),
     amount |-> clean_currency(GetTextStrip(cols[4]))]

OperatingRecord(cols, disclosure_id) ==
    [disclosure_id |-> disclosure_id,
     date |-> format_date(GetTextStrip(cols[1])),
     recipient |-> GetTextStrip(cols[2]),
     type_of_expense |-> GetTextStrip(cols[3]),
     amount |-> clean_currency(GetTextStrip(cols[4]))]

parse_operating_expenses(soup, disclosure_id) ==
    LET table == FindTable(soup, "grdvOperatingExpenses")
    IN  IF table # NoElement /\ ~Contains(TableText(table), OperatingNoData)
        THEN LET kept == SelectSeq(DataRows(table.rows), LAMBDA r : ~OperatingRowSkipped(r))
             IN  [k \in 1..Len(kept) |-> OperatingRecord(kept[k], disclosure_id)]
        ELSE << >>

AdditionalNoData == <<"No additional expenses were filed">>

AdditionalRowSkipped(row) ==
    Contains(RowText(row), <<"Total", Sp, "additional", Sp, "expenses">>) \/ Len(row) < 6

AdditionalRecord(cols, disclosure_id) ==
    [disclosure_id |-> disclosure_id,
     date |-> format_date(GetTextStrip(cols[1])),
     lobbyist_name |-> GetTextStrip(cols[2]),
     recipient_name |-> GetTextStrip(cols[3]),
     type_of_expense |-> GetTextStrip(cols[4]),
     description |-> GetTextStrip(cols[5]),
     amount |-> clean_currency(GetTextStrip(cols[6]))]

\* The records of one additional-expense table.
AdditionalTableRecords(table, disclosure_id) ==
    IF Contains(TableText(table), AdditionalNoData) THEN << >>
    ELSE LET kept == SelectSeq(DataRows(table.rows), LAMBDA r : ~AdditionalRowSkipped(r))
         IN  [k \in 1..Len(kept) |-> AdditionalRecord(kept[k], disclosure_id)]

parse_additional_expenses(soup, disclosure_id) ==
    LET tables == FindAllTables(soup, "grdvAdditionalExpenses")
    IN  Concat([k \in 1..Len(tables) |->
                   AdditionalTableRecords(soup.body[tables[k]], disclosure_id)])

(***************************************************************************)
(* Lobbyist-variant documents.                                             *)
(***************************************************************************)
\* DefaultLobbyist taking a filer with either name field for an individual.
DefaultLobbyistEither(first_name, last_name, employer_name) ==
    LET filer_is_individual == first_name # EmptyText \/ last_name # EmptyText
    IN  IF filer_is_individual THEN FullName(first_name, last_name) ELSE employer_name

\* The name an activity table gets when no Lobbyist: label precedes it.
DefaultLobbyist(first_name, last_name, employer_name) ==
    LET filer_is_individual == first_name # EmptyText /\ last_name # EmptyText
    IN  IF filer_is_individual THEN FullName(first_name, last_name) ELSE employer_name

\* current_lobbyist of the activity table at position p
ResolveLobbyist(soup, p, default) ==
    LET lobbyist_header_td == FindPreviousLabel(soup, p, "td", "Lobbyist:")
    IN  IF lobbyist_header_td # 0 /\ soup.body[lobbyist_header_td].sibling # PyNone
        THEN GetTextStrip(soup.body[lobbyist_header_td].sibling)
        ELSE default

\* current_client of the activity table at position p
ResolveClient(soup, p, default) ==
    LET client_header_td == FindPreviousLabel(soup, p, "td", "Client:")
        client_header_strong == FindPreviousLabel(soup, p, "strong", "Client:")
    IN  IF client_header_td # 0
        THEN IF soup.body[client_header_td].sibling # PyNone
             THEN GetTextStrip(soup.body[client_header_td].sibling)
             ELSE default
        ELSE IF client_header_strong # 0
                /\ soup.body[client_header_strong].sibling # PyNone
             THEN GetTextStrip(soup.body[client_header_strong].sibling)
             ELSE default

\* ActivityRowSkipped without the test for the "total" phrase.
ActivityRowShort(row) == Len(row) < 6

ActivityRowSkipped(row) == Contains(RowText(row), <<"Total", Sp, "amount">>) \/ Len(row) < 6

ActivityRecord(cols, disclosure_id, current_lobbyist, current_client) ==
    [disclosure_id |-> disclosure_id,
     individual_lobbyist_name |-> current_lobbyist,
     client_name |-> current_client,
     house_senate |-> GetTextStrip(cols[1]),
     bill_or_agency |-> GetTextStrip(cols[2]),
     bill_title |-> GetTextStrip(cols[3]),
     agent_position |-> GetTextStrip(cols[4]),
     amount |-> clean_currency(GetTextStrip(cols[5])),
     business_association |-> GetTextStrip(cols[6])]

\* The records of the activity table at position p.
ActivityTableRecords(soup, p, disclosure_id) ==
    LET employer_name == safe_get_text(soup, "span", "lblLobbyistCompany")
        first_name == safe_get_text(soup, "span", "lblLobbyistFirstName")
        last_name == safe_get_text(soup, "span", "lblLobbyistLastName")
        current_lobbyist ==
            ResolveLobbyist(soup, p, DefaultLobbyist(first_name, last_name, employer_name))
        current_client == ResolveClient(soup, p, employer_name)
        kept == SelectSeq(DataRows(soup.body[p].rows), LAMBDA r : ~ActivityRowSkipped(r))
    IN  [k \in 1..Len(kept) |->
            ActivityRecord(kept[k], disclosure_id, current_lobbyist, current_client)]

\* lobbyist_name handed to parse_met_expenses for the MET table at position p
MetLobbyistName(soup, p) ==
    LET lobbyist_name_element == FindPreviousNameSpan(soup, p)
    IN  IF lobbyist_name_element # 0
        THEN Replace(GetTextStrip(soup.body[lobbyist_name_element].string),
                     <<"Lobbyist:", Sp>>, << >>)
        ELSE FullName(safe_get_text(soup, "span", "lblLobbyistFirstName"),
                      safe_get_text(soup, "span", "lblLobbyistLastName"))

ContributionsNoData == <<"No campaign contributions were filed">>

ContributionRowSkipped(row) ==
    Contains(RowText(row), <<"Total", Sp, "contributions">>) \/ Len(row) < 4

ContributionRecord(cols, disclosure_id) ==
    [disclosure_id |-> disclosure_id,
     date |-> format_date(GetTextStrip(cols[1])),
     recipient_name |-> GetTextStrip(cols[2]),
     office_sought |-> GetTextStrip(cols[3]),
     amount |-> clean_currency(GetTextStrip(cols[4]))]

ParseContributions(soup, disclosure_id) ==
    LET contributions_table == FindTable(soup, "grdvCampaignContribution")
    IN  IF contributions_table # NoElement
           /\ ~Contains(TableText(contributions_table), ContributionsNoData)
        THEN LET kept == SelectSeq(DataRows(contributions_table.rows),
                                   LAMBDA r : ~ContributionRowSkipped(r))
             IN  [k \in 1..Len(kept) |-> ContributionRecord(kept[k], disclosure_id)]
        ELSE << >>

parse_lobbyist_report(soup, disclosure_id) ==
    LET employer_name == safe_get_text(soup, "span", "lblLobbyistCompany")
        first_name == safe_get_text(soup, "span", "lblLobbyistFirstName")
        last_name == safe_get_text(soup, "span", "lblLobbyistLastName")
        activity_tables == FindAllTables(soup, "grdvActivitiesNew")
        expense_tables == FindAllTables(soup, "grdvMETExpenses")
    IN  [lobbyist_info |->
            [disclosure_id |-> disclosure_id,
             first_name |-> IF first_name # EmptyText THEN first_name ELSE employer_name,
             last_name |-> last_name,
             employer_name |-> employer_name,
             is_incidental |-> soup.spans["lblIncidental"] # PyNone],
         activities |->
            Concat([k \in 1..Len(activity_tables) |->
                       ActivityTableRecords(soup, activity_tables[k], disclosure_id)]),
         met_expenses |->
            Concat([k \in 1..Len(expense_tables) |->
                       parse_met_expenses(soup.body[expense_tables[k]], disclosure_id,
                                          MetLobbyistName(soup, expense_tables[k]))]),
         operating_expenses |-> parse_operating_expenses(soup, disclosure_id),
         additional_expenses |-> parse_additional_expenses(soup, disclosure_id),
         contributions |-> ParseContributions(soup, disclosure_id)]

(***************************************************************************)
(* Client-variant documents.                                               *)
(***************************************************************************)
CompensationRowSkipped(row) == Contains(RowText(row), <<"Total">>) \/ Len(row) < 2

CompensationRecord(cols, disclosure_id) ==
    [disclosure_id |-> disclosure_id,
     payee_name |-> GetTextStrip(cols[1]),
     amount |-> clean_currency(GetTextStrip(cols[2]))]

ParseCompensations(soup, disclosure_id) ==
    LET comp_table == FindTable(soup, "grdvSalaryPaid")
    IN  IF comp_table # NoElement
        THEN LET kept == SelectSeq(DataRows(comp_table.rows),
                                   LAMBDA r : ~CompensationRowSkipped(r))
             IN  [k \in 1..Len(kept) |-> CompensationRecord(kept[k], disclosure_id)]
        ELSE << >>

parse_client_report(soup, disclosure_id) ==
    [client_info |->
        [disclosure_id |-> disclosure_id,
         client_name |-> safe_get_text(soup, "span", "lblClientCompany"),
         auth_officer_name |->
            FullName(safe_get_text(soup, "span", "lblClientAuthorizingOfficerFirstName"),
                     safe_get_text(soup, "span", "lblClientAuthorizingOfficerLastName")),
         business_interest |-> safe_get_text(soup, "span", "lblBusinessInterest")],
     compensations |-> ParseCompensations(soup, disclosure_id),
     met_expenses |->
        parse_met_expenses(FindTable(soup, "grdvMETExpenses"), disclosure_id, PyNone),
     operating_expenses |-> parse_operating_expenses(soup, disclosure_id),
     additional_expenses |-> parse_additional_expenses(soup, disclosure_id)]

(***************************************************************************)
(* The run: main().                                                        *)
(***************************************************************************)
VARIABLES
    html_dir,                   \* the directory: file name -> document, or NoDirectory
    all_files,                  \* the .html names, in os.listdir order
    i,                          \* position of the next file of the loop
    pc,                         \* "start", "loop", "done", "no_directory", "aborted"
    skipped_files_log,
    disclosure_reports_list,
    lobbyists_list,
    clients_list,
    compensations_list,
    lobbying_activities_list,
    met_expenses_list,
    operating_expenses_list,
    additional_expenses_list,
    contributions_list,
    processed_count,
    skipped_no_header,
    skipped_other_error,
    df_reports,                 \* the DisclosureReport collection written at the end
    df_lobbyists,               \* the LobbyistRecord collection written at the end
    df_clients,                 \* the ClientRecord collection written at the end
    skipped_files_txt           \* the lines of skipped_files.txt

\* The fetcher (src/urlsscrape.py), which saves the pages the extractor reads.
VARIABLES
    state,                      \* StateManager.state: url -> status
    state_file,                 \* what state.json holds
    lock,                       \* StateManager.lock: Unlocked, or the url of its holder
    writing,                    \* the threads that have state.json open for writing
    html_output,                \* the files of html_output: file name -> size in bytes
    driver_found,               \* os.path.exists(CHROME_DRIVER_PATH)
    workers                     \* url -> the call scrape_url(url, state_manager)

lists ==
    <<disclosure_reports_list, lobbyists_list, clients_list, compensations_list,
      lobbying_activities_list, met_expenses_list, operating_expenses_list,
      additional_expenses_list, contributions_list>>
counters == <<processed_count, skipped_no_header, skipped_other_error>>
outputs == <<df_reports, df_lobbyists, df_clients, skipped_files_txt>>
fetcher == <<state, state_file, lock, writing, html_output, driver_found, workers>>
vars ==
    <<html_dir, all_files, i, pc, skipped_files_log, lists, counters, outputs, fetcher>>

NoDirectory == [missing |-> TRUE]

\* f.endswith('.html')
EndsWithHtml(filename) == filename # << >> /\ filename[Len(filename)] = ".html"

\* re.search(r'sysvalue=(.+)\.html', filename).group(1), or PyNone without a match
SysvalueGroup(filename) ==
    LET ends == {j \in 1..Len(filename) : filename[j] = ".html"}
        last == IF ends = {} THEN 0 ELSE CHOOSE j \in ends : \A h \in ends : h <= j
        starts == {k \in 1..Len(filename) : filename[k] = "sysvalue=" /\ k + 1 < last}
    IN  IF starts = {} THEN PyNone
        ELSE LET k == CHOOSE m \in starts : \A h \in starts : m <= h
             IN  SubSeq(filename, k + 1, last - 1)

\* os.path.splitext(filename)[0]
SplitextRoot(filename) ==
    IF Len(filename) > 1 /\ filename[Len(filename)] \in {".html", ".txt"}
    THEN SubSeq(filename, 1, Len(filename) - 1)
    ELSE filename

\* The disclosure_id of a file.
DisclosureId(filename) ==
    IF SysvalueGroup(filename) # PyNone
    THEN Replace(SysvalueGroup(filename), <<"%2f">>, <<"/">>)
    ELSE SplitextRoot(filename)

\* ReportType taking only a header that reads "Lobbyist" for a Lobbyist filing.
ReportTypeExact(header) ==
    IF GetTextStrip(header) = <<"Lobbyist">> THEN "Lobbyist" ELSE "Client"

\* "Lobbyist" if "Lobbyist" in header_text else "Client"
ReportType(header) ==
    IF Contains(GetTextStrip(header), <<"Lobbyist">>) THEN "Lobbyist" ELSE "Client"

ReportRecord(soup, disclosure_id) ==
    LET period == parse_date_range(safe_get_text(soup, "span", "lblYear"))
    IN  [disclosure_id |-> disclosure_id,
         report_type |-> ReportType(soup.header),
         period_start_date |-> period[1],
         period_end_date |-> period[2]]

RECURSIVE DropDuplicatesKeepLast(_, _)
\* drop_duplicates that keeps the last row of each id instead of the first.
DropDuplicatesKeepLast(rows, seen) ==
    IF rows = << >> THEN << >>
    ELSE IF \E n \in 2..Len(rows) : rows[n].disclosure_id = Head(rows).disclosure_id
         THEN DropDuplicatesKeepLast(Tail(rows), seen)
         ELSE <<Head(rows)>> \o DropDuplicatesKeepLast(Tail(rows), seen)

RECURSIVE DropDuplicates(_, _)
\* DataFrame.drop_duplicates(subset=['disclosure_id']): the first row of each id
DropDuplicates(rows, seen) ==
    IF rows = << >> THEN << >>
    ELSE IF Head(rows).disclosure_id \in seen
         THEN DropDuplicates(Tail(rows), seen)
         ELSE <<Head(rows)>>
              \o DropDuplicates(Tail(rows), seen \cup {Head(rows).disclosure_id})

\* The file the loop is at, its document and its identifier.
Filename == all_files[i]
Soup == html_dir[Filename]
InLoop == pc = "loop" /\ i <= Len(all_files)

\* os.path.exists(html_dir) is false: main() prints an error and returns.
MissingDirectory ==
    /\ pc = "start"
    /\ html_dir = NoDirectory
    /\ pc' = "no_directory"
    /\ UNCHANGED <<fetcher, html_dir, all_files, i, skipped_files_log, lists, counters, outputs>>

\* The directory is listed and the loop begins.
ListFiles ==
    /\ pc = "start"
    /\ html_dir # NoDirectory
    /\ pc' = "loop"
    /\ UNCHANGED <<fetcher, html_dir, all_files, i, skipped_files_log, lists, counters, outputs>>

\* open()/read() of the file raises (the bytes are no UTF-8): outside the try
\* block, so the exception ends main().
ReadFails ==
    /\ InLoop
    /\ ~Soup.readable
    /\ pc' = "aborted"
    /\ UNCHANGED <<fetcher, html_dir, all_files, i, skipped_files_log, lists, counters, outputs>>

\* SkipNoHeader that has already recorded the report before the header test.
SkipNoHeaderAfterReport ==
    /\ InLoop
    /\ Soup.readable
    /\ Soup.header = PyNone
    /\ disclosure_reports_list' =
          Append(disclosure_reports_list,
                 [disclosure_id |-> DisclosureId(Filename), report_type |-> "Client",
                  period_start_date |-> PyNone, period_end_date |-> PyNone])
    /\ skipped_no_header' = skipped_no_header + 1
    /\ skipped_files_log' =
          Append(skipped_files_log,
                 [filename |-> Filename, reason |-> "Invalid Content / No Header"])
    /\ i' = i + 1
    /\ UNCHANGED <<fetcher, html_dir, all_files, pc, lobbyists_list, clients_list,
                   compensations_list, lobbying_activities_list, met_expenses_list,
                   operating_expenses_list, additional_expenses_list,
                   contributions_list, processed_count, skipped_other_error, outputs>>

\* The header element is not found.
SkipNoHeader ==
    /\ InLoop
    /\ Soup.readable
    /\ Soup.header = PyNone
    /\ skipped_no_header' = skipped_no_header + 1
    /\ skipped_files_log' =
          Append(skipped_files_log,
                 [filename |-> Filename, reason |-> "Invalid Content / No Header"])
    /\ i' = i + 1
    /\ UNCHANGED <<fetcher, html_dir, all_files, pc, lists, processed_count,
                   skipped_other_error, outputs>>

\* An exception inside the try block.  Which documents make a library call
\* raise is a property of the document (its field fault): "classify" when
\* the call is one of lines 264-267, before the report record is appended,
\* "extract" when it is inside the variant parser called at line 273 or 281,
\* which returns nothing then.
ParsingError ==
    /\ InLoop
    /\ Soup.readable
    /\ Soup.header # PyNone
    /\ Soup.fault # "none"
    /\ disclosure_reports_list' =
          IF Soup.fault = "extract"
          THEN Append(disclosure_reports_list, ReportRecord(Soup, DisclosureId(Filename)))
          ELSE disclosure_reports_list
    /\ skipped_other_error' = skipped_other_error + 1
    /\ skipped_files_log' =
          Append(skipped_files_log, [filename |-> Filename, reason |-> "Parsing Error"])
    /\ i' = i + 1
    /\ UNCHANGED <<fetcher, html_dir, all_files, pc, lobbyists_list, clients_list,
                   compensations_list, lobbying_activities_list, met_expenses_list,
                   operating_expenses_list, additional_expenses_list,
                   contributions_list, processed_count, skipped_no_header, outputs>>

\* ExtractLobbyist with the activities list kept from one call of the parser
\* to the next: each call returns the rows of the earlier calls too.
ExtractLobbyistSharedRows ==
    /\ InLoop
    /\ Soup.readable
    /\ Soup.header # PyNone
    /\ Soup.fault = "none"
    /\ ReportType(Soup.header) = "Lobbyist"
    /\ LET disclosure_id == DisclosureId(Filename)
           bundle == parse_lobbyist_report(Soup, disclosure_id)
       IN  /\ disclosure_reports_list' =
                 Append(disclosure_reports_list, ReportRecord(Soup, disclosure_id))
           /\ lobbyists_list' = Append(lobbyists_list, bundle.lobbyist_info)
           /\ lobbying_activities_list' =
                 lobbying_activities_list \o (lobbying_activities_list \o bundle.activities)
           /\ met_expenses_list' = met_expenses_list \o bundle.met_expenses
           /\ operating_expenses_list' =
                 operating_expenses_list \o bundle.operating_expenses
           /\ additional_expenses_list' =
                 additional_expenses_list \o bundle.additional_expenses
           /\ contributions_list' = contributions_list \o bundle.contributions
    /\ processed_count' = processed_count + 1
    /\ i' = i + 1
    /\ UNCHANGED <<fetcher, html_dir, all_files, pc, skipped_files_log, clients_list,
                   compensations_list, skipped_no_header, skipped_other_error, outputs>>

ExtractLobbyist ==
    /\ InLoop
    /\ Soup.readable
    /\ Soup.header # PyNone
    /\ Soup.fault = "none"
    /\ ReportType(Soup.header) = "Lobbyist"
    /\ LET disclosure_id == DisclosureId(Filename)
           bundle == parse_lobbyist_report(Soup, disclosure_id)
       IN  /\ disclosure_reports_list' =
                 Append(disclosure_reports_list, ReportRecord(Soup, disclosure_id))
           /\ lobbyists_list' = Append(lobbyists_list, bundle.lobbyist_info)
           /\ lobbying_activities_list' = lobbying_activities_list \o bundle.activities
           /\ met_expenses_list' = met_expenses_list \o bundle.met_expenses
           /\ operating_expenses_list' =
                 operating_expenses_list \o bundle.operating_expenses
           /\ additional_expenses_list' =
                 additional_expenses_list \o bundle.additional_expenses
           /\ contributions_list' = contributions_list \o bundle.contributions
    /\ processed_count' = processed_count + 1
    /\ i' = i + 1
    /\ UNCHANGED <<fetcher, html_dir, all_files, pc, skipped_files_log, clients_list,
                   compensations_list, skipped_no_header, skipped_other_error, outputs>>

ExtractClient ==
    /\ InLoop
    /\ Soup.readable
    /\ Soup.header # PyNone
    /\ Soup.fault = "none"
    /\ ReportType(Soup.header) = "Client"
    /\ LET disclosure_id == DisclosureId(Filename)
           bundle == parse_client_report(Soup, disclosure_id)
       IN  /\ disclosure_reports_list' =
                 Append(disclosure_reports_list, ReportRecord(Soup, disclosure_id))
           /\ clients_list' = Append(clients_list, bundle.client_info)
           /\ compensations_list' = compensations_list \o bundle.compensations
           /\ met_expenses_list' = met_expenses_list \o bundle.met_expenses
           /\ operating_expenses_list' =
                 operating_expenses_list \o bundle.operating_expenses
           /\ additional_expenses_list' =
                 additional_expenses_list \o bundle.additional_expenses
    /\ processed_count' = processed_count + 1
    /\ i' = i + 1
    /\ UNCHANGED <<fetcher, html_dir, all_files, pc, skipped_files_log, lobbyists_list,
                   lobbying_activities_list, contributions_list, skipped_no_header,
                   skipped_other_error, outputs>>

\* After the loop: the summary is printed, skipped_files.txt and the
\* collections are written.
Finish ==
    /\ pc = "loop"
    /\ i > Len(all_files)
    /\ skipped_files_txt' = skipped_files_log
    /\ df_reports' = disclosure_reports_list
    /\ df_lobbyists' = DropDuplicates(lobbyists_list, {})
    /\ df_clients' = DropDuplicates(clients_list, {})
    /\ pc' = "done"
    /\ UNCHANGED <<fetcher, html_dir, all_files, i, skipped_files_log, lists, counters>>

Next ==
    \/ MissingDirectory
    \/ ListFiles
    \/ ReadFails
    \/ SkipNoHeader
    \/ ParsingError
    \/ ExtractLobbyist
    \/ ExtractClient
    \/ Finish

(***************************************************************************)
(* Documents and directories the runs start from.                          *)
(***************************************************************************)
NoSpans == [id \in SpanIds |-> PyNone]

LobbyistSpans(first, last, employer) ==
    [NoSpans EXCEPT !["lblYear"] = <<"01/02/2024", Sp, "-", Sp, "03/04/2024">>,
                    !["lblLobbyistFirstName"] = first,
                    !["lblLobbyistLastName"] = last,
                    !["lblLobbyistCompany"] = employer]

ClientSpans(company) ==
    [NoSpans EXCEPT !["lblYear"] = <<"garbage">>,
                    !["lblClientCompany"] = company,
                    !["lblClientAuthorizingOfficerFirstName"] = <<"Dee">>,
                    !["lblClientAuthorizingOfficerLastName"] = <<"Fox", Sp>>,
                    !["lblBusinessInterest"] = <<"Energy">>]

Doc(header, spans, body, fault) ==
    [readable |-> TRUE, header |-> header, spans |-> spans, body |-> body,
     fault |-> fault]

\* A file whose bytes are no UTF-8 text.
UnreadableDoc ==
    [readable |-> FALSE, header |-> PyNone, spans |-> NoSpans, body |-> << >>,
     fault |-> "none"]

LobbyistHeader == <<"Lobbyist", Sp, "Disclosure">>
ClientHeader == <<"Client", Sp, "Disclosure">>

\* A header row of n cells.
HeaderRow(n) == [k \in 1..n |-> <<"Column">>]

ActivityRow(title) ==
    << <<"House">>, <<"H1">>, title, <<"Support">>, <<"$", "12">>, <<"None">> >>
ActivityTable(title) == Table("grdvActivitiesNew", <<HeaderRow(6), ActivityRow(title)>>)
ActivityTotalRow ==
    << <<"Total", Sp, "amount">>, << >>, << >>, << >>, <<"$", "12">>, << >> >>
ActivityTableOf(rows) == Table("grdvActivitiesNew", <<HeaderRow(6)>> \o rows)

Met5Row(event) ==
    << <<"01/02/2024">>, event, <<"Cafe">>, <<"Staff">>, <<"$", "5">> >>
Met6Row(event) ==
    << <<"03/04/2024">>, <<Sp, "Eve", Sp, "Poe">>, event, <<"Hotel">>, <<"Staff">>,
       <<"$", "1", ",", "234.50">> >>
MetTotalRow == << <<"Total", Sp, "amount">>, << >>, << >>, << >>, <<"$", "5">> >>
MetTable(rows) == Table("grdvMETExpenses", <<HeaderRow(5)>> \o rows)
MetNoDataRow == <<MetNoData>>

OperatingRow(kind) == << <<"01/02/2024">>, <<"Landlord">>, kind, <<"12">> >>
OperatingTotalRow ==
    << <<"Total", Sp, "operating", Sp, "expenses">>, << >>, << >>, <<"12">> >>
OperatingTable(rows) == Table("grdvOperatingExpenses", <<HeaderRow(4)>> \o rows)

AdditionalRow(what) ==
    << <<"bad", Sp, "date">>, <<"Eve", Sp, "Poe">>, <<"Printer">>, <<"Supplies">>, what,
       <<"-", "5">> >>
AdditionalTotalRow ==
    << <<"Total", Sp, "additional", Sp, "expenses">>, << >>, << >>, << >>, << >>,
       <<"5">> >>
AdditionalTable(rows) == Table("grdvAdditionalExpenses", <<HeaderRow(6)>> \o rows)

ContributionRow(office) == << <<"03/04/2024">>, <<"Sam", Sp, "Hill">>, office, <<"$", "12">> >>
ContributionTotalRow ==
    << <<"Total", Sp, "contributions">>, << >>, << >>, <<"$", "12">> >>
ContributionsTable(rows) == Table("grdvCampaignContribution", <<HeaderRow(4)>> \o rows)

CompensationRow(payee) == <<payee, <<"$", "1", ",", "234.50">> >>
CompensationTotalRow == << <<"Total">>, <<"$", "1", ",", "234.50">> >>
CompensationTable(rows) == Table("grdvSalaryPaid", <<HeaderRow(2)>> \o rows)

LobbyistLabelTd(name) == Td(<<"Lobbyist:">>, name)
ClientLabelTd(name) == Td(<<Sp, "Client:", Sp>>, name)
ClientLabelStrong(name) == Strong(<<"Client:">>, name)
LobbyistNameSpan(name) == Span("lblLobbyistName", <<"Lobbyist:", Sp>> \o name)

\* An individual's filing with every kind of table a lobbyist files.
LobbyistDocFull ==
    Doc(LobbyistHeader, LobbyistSpans(<<"Ann">>, <<"Lee">>, <<"Acme">>),
        <<ClientLabelTd(<<"Beta">>), ActivityTable(<<"Roads">>),
          LobbyistNameSpan(<<"Cy", Sp, "Orr">>), MetTable(<<Met5Row(<<"Meal">>), MetTotalRow>>),
          OperatingTable(<<OperatingRow(<<"Rent">>)>>),
          AdditionalTable(<<AdditionalRow(<<"Paper">>)>>),
          ContributionsTable(<<ContributionRow(<<"Mayor">>)>>)>>,
        "none")

\* An organization's filing: no name fields, no labels.
LobbyistDocOrg ==
    Doc(LobbyistHeader, LobbyistSpans(PyNone, PyNone, <<"Acme">>),
        <<ActivityTable(<<"Parks">>), MetTable(<<Met5Row(<<"Travel">>)>>)>>, "none")

ClientDocFull ==
    Doc(ClientHeader, ClientSpans(<<"Beta">>),
        <<CompensationTable(<<CompensationRow(<<"Ann", Sp, "Lee">>), CompensationTotalRow>>),
          MetTable(<<Met6Row(<<"Gala">>)>>),
          OperatingTable(<<MetNoDataRow, <<OperatingNoData>>, OperatingRow(<<"Rent">>)>>),
          AdditionalTable(<<AdditionalRow(<<"Toner">>)>>)>>,
        "none")

\* A page that is no disclosure page: no header element.
NoHeaderDoc ==
    Doc(PyNone, LobbyistSpans(<<"Ann">>, <<"Lee">>, <<"Acme">>),
        <<ActivityTable(<<"Roads">>), MetTable(<<Met5Row(<<"Meal">>)>>)>>, "none")

\* Filings on which a library call raises inside the try block.
LobbyistDocFaulty ==
    Doc(LobbyistHeader, LobbyistSpans(<<"Ann">>, <<"Lee">>, <<"Acme">>),
        <<ActivityTable(<<"Roads">>), MetTable(<<Met5Row(<<"Meal">>)>>)>>, "extract")
ClientDocFaulty ==
    Doc(ClientHeader, ClientSpans(<<"Beta">>),
        <<CompensationTable(<<CompensationRow(<<"Ann", Sp, "Lee">>)>>)>>, "classify")

\* A second client filing, to tell documents of one identifier apart.
ClientDocOther ==
    Doc(<<"Employer", Sp, "Disclosure">>, ClientSpans(<<"Gamma">>),
        <<CompensationTable(<<CompensationRow(<<"Bob", Sp, "Ray">>)>>)>>, "none")

Corpus ==
    {LobbyistDocFull, LobbyistDocOrg, ClientDocFull, ClientDocOther, NoHeaderDoc,
     LobbyistDocFaulty, ClientDocFaulty, UnreadableDoc}

\* File names: two of them derive the same identifier, one is no .html file.
FileNames ==
    {<<"a", ".html">>,
     <<"x_", "sysvalue=", "a", ".html">>,
     <<"x_", "sysvalue=", "A", "%2f", "b", ".html">>,
     <<"notes", ".txt">>}

\* The orderings of a finite set: what os.listdir may return.
Orderings(S) ==
    {s \in [1..Cardinality(S) -> S] : \A a, b \in 1..Cardinality(S) : a # b => s[a] # s[b]}

\* The directories of at most n files whose .html files hold documents of docs.
Directories(names, docs, n) ==
    UNION {[N -> docs \cup {UnreadableDoc}] :
              N \in {M \in SUBSET names : Cardinality(M) <= n}}

\* The lock when no thread holds it (no url is the empty text).
Unlocked == << >>

\* No fetcher runs while the extractor does.
FetcherIdle ==
    /\ state = << >>
    /\ state_file = << >>
    /\ lock = Unlocked
    /\ writing = {}
    /\ html_output = << >>
    /\ driver_found = TRUE
    /\ workers = << >>

InitRun(dirs) ==
    /\ FetcherIdle
    /\ (html_dir \in dirs \/ html_dir = NoDirectory)
    /\ all_files \in
          IF html_dir = NoDirectory THEN {<< >>}
          ELSE Orderings({f \in DOMAIN html_dir : EndsWithHtml(f)})
    /\ i = 1
    /\ pc = "start"
    /\ skipped_files_log = << >>
    /\ disclosure_reports_list = << >>
    /\ lobbyists_list = << >>
    /\ clients_list = << >>
    /\ compensations_list = << >>
    /\ lobbying_activities_list = << >>
    /\ met_expenses_list = << >>
    /\ operating_expenses_list = << >>
    /\ additional_expenses_list = << >>
    /\ contributions_list = << >>
    /\ processed_count = 0
    /\ skipped_no_header = 0
    /\ skipped_other_error = 0
    /\ df_reports = << >>
    /\ df_lobbyists = << >>
    /\ df_clients = << >>
    /\ skipped_files_txt = << >>

\* Runs over directories of up to MaxFiles files of the corpus.
Init ==
    InitRun({d \in Directories(FileNames, Corpus, MaxFiles) :
                \A f \in DOMAIN d : ~EndsWithHtml(f) => d[f] = UnreadableDoc})

\* One file, fetched from a locator with a sysvalue parameter.
OneFile == {<<"x_", "sysvalue=", "A", "%2f", "b", ".html">>}

\* Lobbyist filings made of labels and activity tables, up to MaxElems
\* elements each, for every combination of the filer's name fields.
ResolverAlphabet ==
    {LobbyistLabelTd(<<"Bob", Sp, "Ray">>), LobbyistLabelTd(PyNone),
     ClientLabelTd(<<"Beta", Sp>>), ClientLabelTd(PyNone),
     ClientLabelStrong(<<"Gamma">>), ClientLabelStrong(PyNone),
     ActivityTable(<<"Roads">>)}
ResolverDocs ==
    {Doc(LobbyistHeader, LobbyistSpans(first, last, employer), body, "none") :
        first \in {PyNone, <<Sp>>, <<Sp, "Ann">>}, last \in {PyNone, <<"Lee">>},
        employer \in {PyNone, <<"Acme">>},
        body \in UNION {[1..n -> ResolverAlphabet] : n \in 1..MaxElems}}

InitResolver == InitRun(Directories(OneFile, ResolverDocs \cup Corpus, 1))

\* Filings of both variants made of tables of every kind, with and without
\* the "no data" phrase, with a "total" row between two data rows, up to
\* MaxTables elements each.
Met7Row ==
    << <<"03/04/2024">>, <<"Trip">>, <<"Rail">>, <<"Board">>, <<"12">>, <<"Note">>,
       <<"Note">> >>
TableAlphabet ==
    {LobbyistNameSpan(<<"Cy", Sp, "Orr">>), Span("lblLobbyistName", <<Sp>>),
     MetTable(<<Met5Row(<<"Meal">>)>>),
     MetTable(<<Met6Row(<<"Gala">>), MetTotalRow, Met7Row, Met5Row(<<"Snack">>)>>),
     MetTable(<<MetNoDataRow, Met5Row(<<"Stray">>)>>),
     OperatingTable(<<OperatingRow(<<"Rent">>), OperatingTotalRow,
                      OperatingRow(<<"Fees">>)>>),
     OperatingTable(<< <<OperatingNoData>>, OperatingRow(<<"Stray">>)>>),
     AdditionalTable(<<AdditionalRow(<<"Paper">>), AdditionalTotalRow,
                       AdditionalRow(<<"Ink">>)>>),
     AdditionalTable(<< <<AdditionalNoData>>, AdditionalRow(<<"Stray">>)>>),
     ContributionsTable(<<ContributionRow(<<"Mayor">>), ContributionTotalRow,
                          ContributionRow(<<"Clerk">>)>>),
     ContributionsTable(<< <<ContributionsNoData>>, ContributionRow(<<"Stray">>)>>),
     CompensationTable(<<CompensationRow(<<"Ann", Sp, "Lee">>), CompensationTotalRow,
                         CompensationRow(<<"Bob", Sp, "Ray">>)>>),
     ActivityTableOf(<<ActivityRow(<<"Roads">>), ActivityTotalRow,
                       ActivityRow(<<"Parks">>)>>)}
\* Headers with the word after other words, and in lower case.
OtherHeaders ==
    {<<Sp, "Disclosure", Sp, "of", Sp, "a", Sp, "Lobbyist", Sp>>,
     <<"lobbyist", Sp, "disclosure">>}
TableBodies == UNION {[1..n -> TableAlphabet] : n \in 0..MaxTables}
TableDocs ==
    {Doc(LobbyistHeader, LobbyistSpans(first, last, <<"Acme">>), body, "none") :
        first \in {PyNone, <<"Ann">>}, last \in {PyNone, <<"Lee">>},
        body \in TableBodies}
    \cup {Doc(ClientHeader, ClientSpans(<<"Beta">>), body, "none") : body \in TableBodies}
    \cup {Doc(header, LobbyistSpans(<<"Ann">>, <<"Lee">>, <<"Acme">>), body, "none") :
             header \in OtherHeaders, body \in {b \in TableBodies : Len(b) <= 1}}

InitTables == InitRun(Directories(OneFile, TableDocs \cup Corpus, 1))

(***************************************************************************)
(* Files saved by the fetcher (src/urlsscrape.py).  A locator is a         *)
(* sequence of tokens: the scheme, then names and single characters.       *)
(***************************************************************************)
\* The characters of the class [\/:*?"<>|]
ReservedChars == {"/", ":", "*", "?", "\"", "<", ">", "|"}

\* filename = re.sub(r'^https?:\/\/', '', url);
\* filename = re.sub(r'[\/:*?"<>|]', '_', filename) + ".html"
SavedFilename(url) ==
    LET rest == IF url # << >> /\ Head(url) \in {"http://", "https://"}
                THEN Tail(url) ELSE url
    IN  [k \in 1..Len(rest) |-> IF rest[k] \in ReservedChars THEN "_" ELSE rest[k]]
        \o <<".html">>

\* The locator of a disclosure page with the sysvalue parameter V.
DisclosureLocator(V) ==
    <<"https://", "host", "/", "CompleteDisclosure.aspx", "?", "sysvalue=">> \o V

\* The values of the parameter: up to MaxValue characters, letters, the
\* escape %2f, and characters a query may hold unescaped.
ValueTokens == {"A", "%2f", "/", "_"}
Values == UNION {[1..n -> ValueTokens] : n \in 1..MaxValue}

\* The locators fetched: disclosure pages, and pages without the parameter.
Locators ==
    {DisclosureLocator(V) : V \in Values}
    \cup {<<"https://", "host", "/", "about">>, <<"http://", "host", "/", "Help.aspx">>}

\* Directories of one file fetched from a locator, holding any document of
\* the corpus, and of two such files holding the same filing.
LocatorDirs ==
    LET names == {SavedFilename(u) : u \in Locators}
    IN  {[f \in {} |-> UnreadableDoc]}
        \cup {[f \in {a} |-> d] : a \in names, d \in Corpus}
        \cup {[f \in {a, b} |-> d] :
                 a \in names, b \in names, d \in {LobbyistDocOrg, ClientDocOther}}

InitLocators == InitRun(LocatorDirs)

(***************************************************************************)
(* The fetcher: scrape_url(url, state_manager), one call per url, run by   *)
(* the threads of the pool.  A page is its size in bytes.  The calls that  *)
(* may raise are webdriver.Chrome, driver.get / page_source and the        *)
(* open / write of the page.  The locators of a run are saved under        *)
(* different file names.                                                   *)
(***************************************************************************)
MIN_FILE_SIZE_BYTES == 1024

\* The sizes of the pages the server may return.
PageSizes == {MIN_FILE_SIZE_BYTES - 1, MIN_FILE_SIZE_BYTES}

\* The locators of formatted_urls.txt.
UrlList ==
    <<DisclosureLocator(<<"A">>), DisclosureLocator(<<"A", "%2f">>),
      DisclosureLocator(<<"%2f">>), DisclosureLocator(<<"A", "A">>)>>
ScrapeUrls == {UrlList[k] : k \in 1..MaxUrls}

\* A call of scrape_url: where it is, the loop variable, the page fetched,
\* the size measured, the status it is about to set, the number of
\* driver.get calls made and the sizes of the pages saved so far.
NewCall ==
    [pc |-> "start", attempt |-> 0, html_content |-> 0, file_size |-> 0,
     status |-> "", fetches |-> 0, saved |-> << >>]

\* The call for url goes on to update_status(url, status).
ToUpdate(call, status) == [call EXCEPT !.pc = "update", !.status = status]

At(url, where) == url \in DOMAIN workers /\ workers[url].pc = where

\* Lines 86-90: the driver is not at CHROME_DRIVER_PATH.
DriverNotFound(url) ==
    /\ At(url, "start")
    /\ ~driver_found
    /\ workers' = [workers EXCEPT ![url] = ToUpdate(@, "failed_driver_not_found")]
    /\ UNCHANGED <<state, state_file, lock, writing, html_output, driver_found>>

\* Lines 92-94: webdriver.Chrome(...) returns a driver, or raises.
StartDriver(url) ==
    /\ At(url, "start")
    /\ driver_found
    /\ \/ workers' = [workers EXCEPT ![url].pc = "get"]
       \/ workers' = [workers EXCEPT ![url] = ToUpdate(@, "failed_exception")]
    /\ UNCHANGED <<state, state_file, lock, writing, html_output, driver_found>>

\* Lines 96-102: driver.get(url) and page_source, of either attempt.
GetPage(url) ==
    /\ At(url, "get")
    /\ \/ \E size \in PageSizes :
             workers' = [workers EXCEPT ![url].pc = "write",
                                        ![url].html_content = size,
                                        ![url].fetches = @ + 1]
       \/ workers' = [workers EXCEPT
                         ![url] = ToUpdate([@ EXCEPT !.fetches = @ + 1],
                                           "failed_exception")]
    /\ UNCHANGED <<state, state_file, lock, writing, html_output, driver_found>>

\* Lines 104-109: the page is written to html_output, or open/write raises.
WritePage(url) ==
    /\ At(url, "write")
    /\ \/ /\ html_output' =
                (SavedFilename(url) :> workers[url].html_content) @@ html_output
          /\ workers' = [workers EXCEPT ![url].pc = "size",
                                        ![url].saved =
                                            Append(@, workers[url].html_content)]
       \/ /\ workers' = [workers EXCEPT ![url] = ToUpdate(@, "failed_exception")]
          /\ UNCHANGED html_output
    /\ UNCHANGED <<state, state_file, lock, writing, driver_found>>

\* MeasurePage taking the page of the second attempt whatever its size.
MeasurePageOnce(url) ==
    /\ At(url, "size")
    /\ LET file_size == html_output[SavedFilename(url)]
           call == [workers[url] EXCEPT !.file_size = file_size]
       IN  workers' =
              [workers EXCEPT ![url] =
                  IF file_size < MIN_FILE_SIZE_BYTES /\ call.attempt = 0
                  THEN [call EXCEPT !.attempt = 1, !.pc = "get"]
                  ELSE ToUpdate(call, "completed")]
    /\ UNCHANGED <<state, state_file, lock, writing, html_output, driver_found>>

\* Lines 111-123: os.path.getsize(save_path) and what follows from it.
MeasurePage(url) ==
    /\ At(url, "size")
    /\ LET file_size == html_output[SavedFilename(url)]
           call == [workers[url] EXCEPT !.file_size = file_size]
       IN  workers' =
              [workers EXCEPT ![url] =
                  IF file_size < MIN_FILE_SIZE_BYTES
                  THEN IF call.attempt = 0
                       THEN [call EXCEPT !.attempt = 1, !.pc = "get"]
                       ELSE ToUpdate(call, "failed_small_file")
                  ELSE ToUpdate(call, "completed")]
    /\ UNCHANGED <<state, state_file, lock, writing, html_output, driver_found>>

\* The call inside update_status(url, status): of what scrape_url holds,
\* update_status is given the status only, and scrape_url reads none of its
\* locals after it.
InUpdateStatus(call) == [NewCall EXCEPT !.pc = "locked", !.status = call.status]

\* AcquireLock entering `with self.lock` while another thread holds the lock.
AcquireLockUnguarded(url) ==
    /\ At(url, "update")
    /\ lock' = url
    /\ workers' = [workers EXCEPT ![url] = InUpdateStatus(@)]
    /\ UNCHANGED <<state, state_file, writing, html_output, driver_found>>

\* update_status, line 53: the thread enters `with self.lock`.
AcquireLock(url) ==
    /\ At(url, "update")
    /\ lock = Unlocked
    /\ lock' = url
    /\ workers' = [workers EXCEPT ![url] = InUpdateStatus(@)]
    /\ UNCHANGED <<state, state_file, writing, html_output, driver_found>>

\* update_status, lines 54-55: self.state[url] = status.
UpdateStatus(url) ==
    /\ At(url, "locked")
    /\ state' = (url :> workers[url].status) @@ state
    /\ workers' = [workers EXCEPT ![url].pc = "save"]
    /\ UNCHANGED <<state_file, lock, writing, html_output, driver_found>>

\* _save, line 49: open(self.filepath, 'w') empties state.json.
SaveOpen(url) ==
    /\ At(url, "save")
    /\ writing' = writing \cup {url}
    /\ state_file' = << >>
    /\ workers' = [workers EXCEPT ![url].pc = "dump"]
    /\ UNCHANGED <<state, lock, html_output, driver_found>>

\* _save, line 50: json.dump(self.state, f), and the file is closed.
SaveDump(url) ==
    /\ At(url, "dump")
    /\ state_file' = state
    /\ writing' = writing \ {url}
    /\ workers' = [workers EXCEPT ![url].pc = "saved"]
    /\ UNCHANGED <<state, lock, html_output, driver_found>>

\* update_status returns: the `with` block releases the lock, and
\* scrape_url returns.
ReleaseLock(url) ==
    /\ At(url, "saved")
    /\ lock' = Unlocked
    /\ workers' = [workers EXCEPT ![url].pc = "returned"]
    /\ UNCHANGED <<state, state_file, writing, html_output, driver_found>>

\* The steps of the call for one url.
ScrapeUrl(url) ==
    \/ DriverNotFound(url)
    \/ StartDriver(url)
    \/ GetPage(url)
    \/ WritePage(url)
    \/ MeasurePage(url)
    \/ AcquireLock(url)
    \/ UpdateStatus(url)
    \/ SaveOpen(url)
    \/ SaveDump(url)
    \/ ReleaseLock(url)

ExtractorIdle ==
    UNCHANGED <<html_dir, all_files, i, pc, skipped_files_log, lists, counters, outputs>>

NextScraper ==
    \/ \E url \in ScrapeUrls : DriverNotFound(url) /\ ExtractorIdle
    \/ \E url \in ScrapeUrls : StartDriver(url) /\ ExtractorIdle
    \/ \E url \in ScrapeUrls : GetPage(url) /\ ExtractorIdle
    \/ \E url \in ScrapeUrls : WritePage(url) /\ ExtractorIdle
    \/ \E url \in ScrapeUrls : MeasurePage(url) /\ ExtractorIdle
    \/ \E url \in ScrapeUrls : AcquireLock(url) /\ ExtractorIdle
    \/ \E url \in ScrapeUrls : UpdateStatus(url) /\ ExtractorIdle
    \/ \E url \in ScrapeUrls : SaveOpen(url) /\ ExtractorIdle
    \/ \E url \in ScrapeUrls : SaveDump(url) /\ ExtractorIdle
    \/ \E url \in ScrapeUrls : ReleaseLock(url) /\ ExtractorIdle

\* The statuses state.json may hold for a url when a run begins.
StartStatuses == {"pending", "failed_small_file", "completed"}

\* After initialize_urls and get_urls_to_process (lines 156-169): every url
\* has a status, and the pool runs one call for each that is not completed.
InitScraper ==
    /\ state \in [ScrapeUrls -> StartStatuses]
    /\ state_file = state
    /\ lock = Unlocked
    /\ writing = {}
    /\ html_output = << >>
    /\ driver_found \in BOOLEAN
    /\ workers = [url \in {u \in ScrapeUrls : state[u] # "completed"} |-> NewCall]
    /\ html_dir = NoDirectory
    /\ all_files = << >>
    /\ i = 1
    /\ pc = "start"
    /\ skipped_files_log = << >>
    /\ disclosure_reports_list = << >>
    /\ lobbyists_list = << >>
    /\ clients_list = << >>
    /\ compensations_list = << >>
    /\ lobbying_activities_list = << >>
    /\ met_expenses_list = << >>
    /\ operating_expenses_list = << >>
    /\ additional_expenses_list = << >>
    /\ contributions_list = << >>
    /\ processed_count = 0
    /\ skipped_no_header = 0
    /\ skipped_other_error = 0
    /\ df_reports = << >>
    /\ df_lobbyists = << >>
    /\ df_clients = << >>
    /\ skipped_files_txt = << >>

(***************************************************************************)
(* The runs of the fetcher: main(), lines 156-169, once formatted_urls.txt *)
(* has been read.  state.json is what one run leaves to the next; a run    *)
(* begins when the pool of the run before it has shut down.                *)
(***************************************************************************)
\* Every call of the pool has returned.
AllReturned == \A url \in DOMAIN workers : workers[url].pc = "returned"

\* StateManager._load: the dictionary state.json holds, {} without the file.
Load(file) == [url \in DOMAIN file |-> file[url]]

\* StateManager.initialize_urls: the state after the loop of lines 41-44.
initialize_urls(st, urls) ==
    [url \in DOMAIN st \cup urls |-> IF url \in DOMAIN st THEN st[url] ELSE "pending"]

\* get_urls_to_process returning the completed urls too.
get_urls_to_process_all(st) == DOMAIN st

\* StateManager.get_urls_to_process
get_urls_to_process(st) == {url \in DOMAIN st : st[url] # "completed"}

\* main, lines 156-169: the state is loaded, the urls of the file are added,
\* state.json is saved if one was added, and the pool is given one call for
\* each url to process.
FetcherMain(initial_urls) ==
    /\ AllReturned
    /\ lock = Unlocked
    /\ writing = {}
    /\ LET loaded == Load(state_file)
           st == initialize_urls(loaded, initial_urls)
           updated == \E url \in initial_urls : url \notin DOMAIN loaded
       IN  /\ state' = st
           /\ state_file' = IF updated THEN st ELSE state_file
           /\ workers' = [url \in get_urls_to_process(st) |-> NewCall]
    /\ UNCHANGED <<lock, writing, html_output, driver_found>>

\* What formatted_urls.txt may hold when a run begins: the file grows by
\* lines added at its end, and may be replaced by a shorter one.
UrlFiles == {{UrlList[k] : k \in 1..n} : n \in 0..MaxUrls}

NextRuns ==
    \/ \E initial_urls \in UrlFiles : FetcherMain(initial_urls) /\ ExtractorIdle
    \/ NextScraper

\* Before the first run there is no state.json and no saved page.
InitRuns ==
    /\ state = << >>
    /\ state_file = << >>
    /\ lock = Unlocked
    /\ writing = {}
    /\ html_output = << >>
    /\ driver_found \in BOOLEAN
    /\ workers = << >>
    /\ html_dir = NoDirectory
    /\ all_files = << >>
    /\ i = 1
    /\ pc = "start"
    /\ skipped_files_log = << >>
    /\ disclosure_reports_list = << >>
    /\ lobbyists_list = << >>
    /\ clients_list = << >>
    /\ compensations_list = << >>
    /\ lobbying_activities_list = << >>
    /\ met_expenses_list = << >>
    /\ operating_expenses_list = << >>
    /\ additional_expenses_list = << >>
    /\ contributions_list = << >>
    /\ processed_count = 0
    /\ skipped_no_header = 0
    /\ skipped_other_error = 0
    /\ df_reports = << >>
    /\ df_lobbyists = << >>
    /\ df_clients = << >>
    /\ skipped_files_txt = << >>

Spec == Init /\ [][Next]_vars

(***************************************************************************)
(* Vocabulary of the properties.                                           *)
(***************************************************************************)
\* The documents the loop has dealt with are those at positions below i.
Positions == 1..Len(all_files)
Handled(k) == pc \in {"loop", "done", "aborted"} /\ k < i
DocAt(k) == html_dir[all_files[k]]
IdAt(k) == DisclosureId(all_files[k])
HasHeader(k) == DocAt(k).readable /\ DocAt(k).header # PyNone
\* An error is raised while extracting document k, whose header was found.
Raised(k) == HasHeader(k) /\ DocAt(k).fault # "none"
\* Document k is extracted to the end.
Extracted(k) == HasHeader(k) /\ DocAt(k).fault = "none"
IsLobbyist(k) == Contains(Strip(DocAt(k).header), <<"Lobbyist">>)
IdsOf(list) == {list[n].disclosure_id : n \in 1..Len(list)}
LogFor(log, k) == {n \in 1..Len(log) : log[n].filename = all_files[k]}

(***************************************************************************)
(* C1: extraction of a document is all-or-nothing: when an error is raised *)
(* while extracting a document whose header was found, at the end of the   *)
(* run none of the nine collections holds a record of that document (no    *)
(* other document of the batch having its identifier), and the document    *)
(* has its skip-log entry.                                                 *)
(***************************************************************************)
C1_AllOrNothing ==
    pc = "done" =>
        \A k \in Positions :
            (Raised(k) /\ \A j \in Positions \ {k} : IdAt(j) # IdAt(k)) =>
                /\ \A n \in 1..9 : IdAt(k) \notin IdsOf(lists[n])
                /\ Cardinality(LogFor(skipped_files_txt, k)) = 1

(***************************************************************************)
(* C2: every record a step of the loop adds to any of the nine collections *)
(* carries the disclosure_id derived from the file of that step, which is  *)
(* never null; the records already there stay as they are.                 *)
(***************************************************************************)
C2_StampedWithOwnId ==
    [][\A n \in 1..9 :
          /\ Len(lists'[n]) >= Len(lists[n])
          /\ SubSeq(lists'[n], 1, Len(lists[n])) = lists[n]
          /\ \A m \in (Len(lists[n]) + 1)..Len(lists'[n]) :
                /\ lists'[n][m].disclosure_id = DisclosureId(all_files[i])
                /\ lists'[n][m].disclosure_id \notin {PyNone, EmptyText}]_vars

\* Records of two documents with different identifiers sit in one collection.
C2_Witness ==
    /\ pc = "done"
    /\ Len(met_expenses_list) >= 2
    /\ Cardinality(IdsOf(met_expenses_list)) = 2
    /\ Cardinality(IdsOf(additional_expenses_list)) = 2

\* The first document processed among those extracted of the kind and the
\* identifier of document k.
FirstOfId(k, SameKind(_)) ==
    CHOOSE j \in Positions :
        /\ Extracted(j) /\ SameKind(j) /\ IdAt(j) = IdAt(k)
        /\ \A h \in Positions :
              (Extracted(h) /\ SameKind(h) /\ IdAt(h) = IdAt(k)) => j <= h
IsClient(k) == ~IsLobbyist(k)

(***************************************************************************)
(* C3: at the end of the run the LobbyistRecord and the ClientRecord       *)
(* collections hold one record per disclosure_id, and for documents that   *)
(* share an identifier it is the record of the first of them processed.    *)
(***************************************************************************)
C3_FirstSeenWins ==
    pc = "done" =>
        /\ \A n, m \in 1..Len(df_lobbyists) :
              n # m => df_lobbyists[n].disclosure_id # df_lobbyists[m].disclosure_id
        /\ \A n, m \in 1..Len(df_clients) :
              n # m => df_clients[n].disclosure_id # df_clients[m].disclosure_id
        /\ \A k \in Positions :
              (Extracted(k) /\ IsLobbyist(k)) =>
                  \E n \in 1..Len(df_lobbyists) :
                      df_lobbyists[n] =
                          parse_lobbyist_report(DocAt(FirstOfId(k, IsLobbyist)),
                                                IdAt(k)).lobbyist_info
        /\ \A k \in Positions :
              (Extracted(k) /\ IsClient(k)) =>
                  \E n \in 1..Len(df_clients) :
                      df_clients[n] =
                          parse_client_report(DocAt(FirstOfId(k, IsClient)),
                                              IdAt(k)).client_info

\* Two lobbyist filings and, in another run, two client filings of one
\* identifier and different content were aggregated.
C3_Witness ==
    /\ pc = "done"
    /\ \/ /\ Len(lobbyists_list) = 2
          /\ lobbyists_list[1] # lobbyists_list[2]
          /\ lobbyists_list[1].disclosure_id = lobbyists_list[2].disclosure_id
          /\ Len(df_lobbyists) = 1
       \/ /\ Len(clients_list) = 2
          /\ clients_list[1] # clients_list[2]
          /\ clients_list[1].disclosure_id = clients_list[2].disclosure_id
          /\ Len(df_clients) = 1

(***************************************************************************)
(* C4: a step of the loop at a document without the header element leaves  *)
(* the nine collections as they are, counts nothing as processed and adds  *)
(* exactly one skip-log entry, with the no-header reason.                  *)
(***************************************************************************)
C4_NoHeaderSkipped ==
    [][(InLoop /\ Soup.readable /\ Soup.header = PyNone) =>
          /\ lists' = lists
          /\ processed_count' = processed_count
          /\ skipped_other_error' = skipped_other_error
          /\ skipped_files_log' =
                Append(skipped_files_log,
                       [filename |-> all_files[i],
                        reason |-> "Invalid Content / No Header"])]_vars

\* A document without header, holding tables, was passed and the run ended.
C4_Witness ==
    /\ pc = "done"
    /\ \E k \in Positions :
          /\ DocAt(k).readable /\ DocAt(k).header = PyNone /\ DocAt(k).body # << >>
          /\ \E n \in LogFor(skipped_files_txt, k) :
                skipped_files_txt[n].reason = "Invalid Content / No Header"

(***************************************************************************)
(* C5: failure is contained per document: a run over an existing directory *)
(* ends only with every document of the batch examined and the summary     *)
(* reached.                                                                *)
(***************************************************************************)
C5_FailureContained ==
    (html_dir # NoDirectory /\ pc \notin {"start", "loop"}) =>
        (pc = "done" /\ i = Len(all_files) + 1)

(***************************************************************************)
(* Vocabulary of the properties of one document: the run of a directory    *)
(* of one file, extracted to the end.                                      *)
(***************************************************************************)
OneExtracted == pc = "done" /\ Len(all_files) = 1 /\ Extracted(1)
OneLobbyist == OneExtracted /\ IsLobbyist(1)
OneClient == OneExtracted /\ IsClient(1)
TheDoc == DocAt(1)
TheId == IdAt(1)
First == safe_get_text(TheDoc, "span", "lblLobbyistFirstName")
Last == safe_get_text(TheDoc, "span", "lblLobbyistLastName")
Employer == safe_get_text(TheDoc, "span", "lblLobbyistCompany")

\* The nearest element before position p that is a label of either encoding
\* (a cell or a <strong>), or 0.
NearestLabel(p, label) ==
    LET hits == {q \in 1..(p - 1) :
                    /\ TheDoc.body[q].tag \in {"td", "strong"}
                    /\ StartsWithLabel(TheDoc.body[q].string, label)}
    IN  IF hits = {} THEN 0 ELSE CHOOSE q \in hits : \A h \in hits : h <= q

\* The name the nearest label of either encoding gives, or the default.
NameOfNearest(p, label, default) ==
    LET q == NearestLabel(p, label)
    IN  IF q # 0 /\ TheDoc.body[q].sibling # PyNone
        THEN Strip(TheDoc.body[q].sibling) ELSE default

\* The primary filer name: "first last" of an individual, else the employer.
PrimaryFilerName ==
    IF First # << >> /\ Last # << >> THEN First \o <<Sp>> \o Last ELSE Employer

\* The activity records of the document when the table at position p is
\* stamped with the names L(p) and C(p).
ActivitiesStamped(L(_), C(_)) ==
    LET tables == FindAllTables(TheDoc, "grdvActivitiesNew")
        Records(p) ==
            LET kept == SelectSeq(DataRows(TheDoc.body[p].rows),
                                  LAMBDA r : ~ActivityRowSkipped(r))
            IN  [n \in 1..Len(kept) |-> ActivityRecord(kept[n], TheId, L(p), C(p))]
    IN  Concat([k \in 1..Len(tables) |-> Records(tables[k])])

(***************************************************************************)
(* C6: the records of each activity table of a Lobbyist-variant document   *)
(* carry the lobbyist name and the client name of the nearest label before *)
(* the table, whichever of the two encodings that label uses.              *)
(***************************************************************************)
C6_NearestLabelWins ==
    OneLobbyist =>
        lobbying_activities_list =
            ActivitiesStamped(LAMBDA p : NameOfNearest(p, "Lobbyist:", PrimaryFilerName),
                              LAMBDA p : NameOfNearest(p, "Client:", Employer))

(***************************************************************************)
(* C7: an activity table with no Lobbyist: label before it gets "first     *)
(* last" when both name fields are non-empty, and the employer name        *)
(* otherwise, also when exactly one of the two fields is empty.            *)
(***************************************************************************)
C7_IndividualIffBothNames ==
    OneLobbyist =>
        lobbying_activities_list =
            ActivitiesStamped(
                LAMBDA p : IF NearestLabel(p, "Lobbyist:") = 0 THEN PrimaryFilerName
                           ELSE ResolveLobbyist(TheDoc, p, PrimaryFilerName),
                LAMBDA p : ResolveClient(TheDoc, p, Employer))

\* A filer with a first name and no last name, with an unlabelled activity
\* table, got the employer name.
C7_Witness ==
    /\ OneLobbyist
    /\ First # << >> /\ Last = << >> /\ Employer # << >>
    /\ Len(lobbying_activities_list) >= 1
    /\ NearestLabel(Len(TheDoc.body), "Lobbyist:") = 0
    /\ \A n \in 1..Len(lobbying_activities_list) :
          lobbying_activities_list[n].individual_lobbyist_name = Employer

\* The other two cases of C7: an individual, and a filer with no name field.
C7_WitnessIndividual ==
    /\ OneLobbyist
    /\ First # << >> /\ Last # << >>
    /\ NearestLabel(Len(TheDoc.body), "Lobbyist:") = 0
    /\ Len(lobbying_activities_list) >= 1
    /\ lobbying_activities_list[1].individual_lobbyist_name = <<"Ann", Sp, "Lee">>

(***************************************************************************)
(* The MET-expense records of the document, of the tables the variant      *)
(* reads (every MET table of a Lobbyist filing, the first of a Client      *)
(* filing), with Record(row, p) for each row kept of the table at p.       *)
(***************************************************************************)
MetTablesRead ==
    LET tables == FindAllTables(TheDoc, "grdvMETExpenses")
    IN  IF IsLobbyist(1) \/ tables = << >> THEN tables ELSE <<tables[1]>>

MetExpected(Record(_, _)) ==
    LET Records(p) ==
            IF Contains(TableText(TheDoc.body[p]), MetNoData) THEN << >>
            ELSE LET kept == SelectSeq(DataRows(TheDoc.body[p].rows),
                                       LAMBDA r : ~MetRowSkipped(r))
                 IN  [n \in 1..Len(kept) |-> Record(kept[n], p)]
    IN  Concat([k \in 1..Len(MetTablesRead) |-> Records(MetTablesRead[k])])

(***************************************************************************)
(* C8: in a Lobbyist-variant document the rows without a lobbyist column   *)
(* of a MET-expense table with no lobbyist-name label before it carry the  *)
(* primary filer name: the individual's full name, or the employer name of *)
(* an organization.                                                        *)
(***************************************************************************)
C8_MetDefaultsToFiler ==
    OneLobbyist =>
        met_expenses_list =
            MetExpected(LAMBDA row, p :
                IF FindPreviousNameSpan(TheDoc, p) = 0 /\ Len(row) # 6
                THEN [MetRecord(row, TheId, PyNone) EXCEPT !.lobbyist_name = PrimaryFilerName]
                ELSE MetRecord(row, TheId, MetLobbyistName(TheDoc, p)))

\* The record of a kept MET-expense row, cell by cell.
MetRowMapped(row, ambient) ==
    LET shift == IF Len(row) = 6 THEN 1 ELSE 0
    IN  [disclosure_id |-> TheId,
         lobbyist_name |-> IF shift = 1 THEN Strip(row[2])
                           ELSE IF ambient \in {PyNone, EmptyText} THEN <<"N/A">>
                                ELSE ambient,
         date |-> format_date(Strip(row[1])),
         event_type |-> Strip(row[2 + shift]),
         payee_vendor |-> Strip(row[3 + shift]),
         attendees |-> Strip(row[4 + shift]),
         amount |-> clean_currency(Strip(row[5 + shift]))]

(***************************************************************************)
(* C9: a MET-expense row that is kept gives date from cell 0; with 6 cells *)
(* lobbyist_name from cell 1 and event_type, payee_vendor, attendees,      *)
(* amount from cells 2 to 5; otherwise the ambient name ("N/A" without     *)
(* one) and event_type, payee_vendor, attendees, amount from cells 1 to 4. *)
(***************************************************************************)
C9_MetLayouts ==
    OneExtracted =>
        met_expenses_list =
            MetExpected(LAMBDA row, p :
                MetRowMapped(row, IF IsLobbyist(1) THEN MetLobbyistName(TheDoc, p)
                                  ELSE PyNone))

\* Rows of 6 cells, of 7 cells and of 5 cells under a name label were
\* extracted from one document.
C9_Witness ==
    /\ OneLobbyist
    /\ \E a, b, c \in 1..Len(met_expenses_list) :
          /\ met_expenses_list[a].lobbyist_name = <<"Eve", Sp, "Poe">>
          /\ met_expenses_list[a].event_type = <<"Gala">>
          /\ met_expenses_list[a].amount = Num(123450)
          /\ met_expenses_list[b].lobbyist_name = <<"Cy", Sp, "Orr">>
          /\ met_expenses_list[b].event_type = <<"Trip">>
          /\ met_expenses_list[b].amount = Num(1200)
          /\ met_expenses_list[c].lobbyist_name = <<"Cy", Sp, "Orr">>
          /\ met_expenses_list[c].event_type = <<"Snack">>
          /\ met_expenses_list[c].amount = Num(500)

RECURSIVE SumOf(_)
SumOf(numbers) == IF numbers = << >> THEN 0 ELSE Head(numbers) + SumOf(Tail(numbers))

\* The data rows of the tables of one kind that lack the kind's phrase.
RowsWithoutPhrase(id, phrase) ==
    LET tables == FindAllTables(TheDoc, id)
    IN  SumOf([k \in 1..Len(tables) |->
                  IF Contains(TableText(TheDoc.body[tables[k]]), phrase) THEN 0
                  ELSE Len(DataRows(TheDoc.body[tables[k]].rows))])

(***************************************************************************)
(* C10: a table whose text holds the "no data" phrase of its kind adds no  *)
(* record, whatever rows it has, and a kind without any table adds none;   *)
(* the document still counts as processed and is not logged as skipped.    *)
(***************************************************************************)
C10_NoDataYieldsNothing ==
    OneExtracted =>
        /\ Len(met_expenses_list) <= RowsWithoutPhrase("grdvMETExpenses", MetNoData)
        /\ Len(operating_expenses_list)
              <= RowsWithoutPhrase("grdvOperatingExpenses", OperatingNoData)
        /\ Len(additional_expenses_list)
              <= RowsWithoutPhrase("grdvAdditionalExpenses", AdditionalNoData)
        /\ Len(contributions_list)
              <= RowsWithoutPhrase("grdvCampaignContribution", ContributionsNoData)
        /\ FindAllTables(TheDoc, "grdvActivitiesNew") = << >>
              => lobbying_activities_list = << >>
        /\ FindAllTables(TheDoc, "grdvSalaryPaid") = << >> => compensations_list = << >>
        /\ processed_count = 1
        /\ skipped_files_log = << >>
        /\ skipped_files_txt = << >>

\* A document with a MET table and an operating table that hold the phrase
\* and a stray row each was processed and gave no record of either kind.
C10_Witness ==
    /\ OneExtracted
    /\ \E p, q \in 1..Len(TheDoc.body) :
          /\ TheDoc.body[p].id = "grdvMETExpenses"
          /\ Contains(TableText(TheDoc.body[p]), MetNoData)
          /\ Len(TheDoc.body[p].rows) > 2
          /\ TheDoc.body[q].id = "grdvOperatingExpenses"
          /\ Contains(TableText(TheDoc.body[q]), OperatingNoData)
          /\ Len(TheDoc.body[q].rows) > 2
    /\ met_expenses_list = << >>
    /\ operating_expenses_list = << >>
    /\ processed_count = 1

(***************************************************************************)
(* Vocabulary of C11: the rows of a table that hold a phrase, and the      *)
(* records of the rows of the table at position p that neither hold the    *)
(* "total" phrase of the kind nor are shorter than the kind's layout.      *)
(***************************************************************************)
HoldsPhrase(row, phrase) == Contains(Concat(row), phrase)

RECURSIVE WithoutTotals(_, _)
WithoutTotals(rows, phrase) ==
    IF rows = << >> THEN << >>
    ELSE (IF HoldsPhrase(Head(rows), phrase) THEN << >> ELSE <<Head(rows)>>)
         \o WithoutTotals(Tail(rows), phrase)

\* The first table of the kind, when the document has one and it lacks the
\* kind's "no data" phrase: the table every variant reads.
FirstRead(id, nodata) ==
    LET tables == FindAllTables(TheDoc, id)
    IN  IF tables = << >> \/ Contains(TableText(TheDoc.body[tables[1]]), nodata)
        THEN 0 ELSE tables[1]

\* list begins with the records of the first table's rows that are no
\* "total" rows, and holds the record of no "total" row of any table.
TotalsExcluded(list, id, nodata, phrase, cells, Record(_, _)) ==
    LET p == FirstRead(id, nodata)
        rows == IF p = 0 THEN << >>
                ELSE SelectSeq(WithoutTotals(DataRows(TheDoc.body[p].rows), phrase),
                               LAMBDA r : Len(r) >= cells)
        tables == FindAllTables(TheDoc, id)
    IN  /\ Len(list) >= Len(rows)
        /\ \A n \in 1..Len(rows) : list[n] = Record(rows[n], p)
        /\ \A k \in 1..Len(tables) :
              \A n \in 2..Len(TheDoc.body[tables[k]].rows) :
                 LET row == TheDoc.body[tables[k]].rows[n]
                 IN  (HoldsPhrase(row, phrase) /\ Len(row) >= cells) =>
                        \A m \in 1..Len(list) : list[m] # Record(row, tables[k])

(***************************************************************************)
(* C11: in every table kind a row whose text holds the kind's "total"      *)
(* phrase yields no record, wherever it stands among the rows, and the     *)
(* rows after it are still extracted.                                      *)
(***************************************************************************)
C11_TotalRowsExcluded ==
    OneExtracted =>
        /\ TotalsExcluded(met_expenses_list, "grdvMETExpenses", MetNoData,
                          <<"Total", Sp, "amount">>, 5,
                          LAMBDA row, p :
                              MetRecord(row, TheId,
                                        IF IsLobbyist(1) THEN MetLobbyistName(TheDoc, p)
                                        ELSE PyNone))
        /\ TotalsExcluded(operating_expenses_list, "grdvOperatingExpenses",
                          OperatingNoData, <<"Total", Sp, "operating", Sp, "expenses">>, 4,
                          LAMBDA row, p : OperatingRecord(row, TheId))
        /\ TotalsExcluded(additional_expenses_list, "grdvAdditionalExpenses",
                          AdditionalNoData,
                          <<"Total", Sp, "additional", Sp, "expenses">>, 6,
                          LAMBDA row, p : AdditionalRecord(row, TheId))
        /\ IsLobbyist(1) =>
              /\ TotalsExcluded(lobbying_activities_list, "grdvActivitiesNew",
                                <<"<no phrase>">>, <<"Total", Sp, "amount">>, 6,
                                LAMBDA row, p :
                                    ActivityRecord(row, TheId,
                                        ResolveLobbyist(TheDoc, p, PrimaryFilerName),
                                        ResolveClient(TheDoc, p, Employer)))
              /\ TotalsExcluded(contributions_list, "grdvCampaignContribution",
                                ContributionsNoData, <<"Total", Sp, "contributions">>, 4,
                                LAMBDA row, p : ContributionRecord(row, TheId))
        /\ IsClient(1) =>
              TotalsExcluded(compensations_list, "grdvSalaryPaid", <<"<no phrase>">>,
                             <<"Total">>, 2,
                             LAMBDA row, p : CompensationRecord(row, TheId))

\* A filing with an activity table and an operating table, each with a
\* "total" row between two data rows, gave the two data rows of each.
C11_Witness ==
    /\ OneLobbyist
    /\ \E p, q \in 1..Len(TheDoc.body) :
          /\ TheDoc.body[p].id = "grdvActivitiesNew"
          /\ Len(TheDoc.body[p].rows) = 4
          /\ HoldsPhrase(TheDoc.body[p].rows[3], <<"Total", Sp, "amount">>)
          /\ TheDoc.body[q].id = "grdvOperatingExpenses"
          /\ Len(TheDoc.body[q].rows) = 4
          /\ HoldsPhrase(TheDoc.body[q].rows[3], <<"Total", Sp, "operating", Sp, "expenses">>)
    /\ Len(lobbying_activities_list) = 2
    /\ lobbying_activities_list[2].bill_title = <<"Parks">>
    /\ Len(operating_expenses_list) = 2
    /\ operating_expenses_list[2].type_of_expense = <<"Fees">>

\* The records of all the tables of one kind, in document order: each table
\* that lacks the kind's "no data" phrase gives the records of its rows.
UnionOfTables(id, nodata, Skipped(_), Record(_, _)) ==
    LET tables == FindAllTables(TheDoc, id)
        Records(p) ==
            IF Contains(TableText(TheDoc.body[p]), nodata) THEN << >>
            ELSE LET kept == SelectSeq(DataRows(TheDoc.body[p].rows),
                                       LAMBDA r : ~Skipped(r))
                 IN  [n \in 1..Len(kept) |-> Record(kept[n], p)]
    IN  Concat([k \in 1..Len(tables) |-> Records(tables[k])])

(***************************************************************************)
(* C12: for each repeatable kind (activity, MET expense, operating         *)
(* expense, additional expense), in either variant the kind applies to,    *)
(* the records of the kind are those of all the tables of the kind in the  *)
(* document; a "no data" phrase in one table drops only that table's rows. *)
(***************************************************************************)
C12_UnionOfTables ==
    OneExtracted =>
        /\ met_expenses_list =
              UnionOfTables("grdvMETExpenses", MetNoData, MetRowSkipped,
                            LAMBDA row, p :
                                MetRecord(row, TheId,
                                          IF IsLobbyist(1) THEN MetLobbyistName(TheDoc, p)
                                          ELSE PyNone))
        /\ operating_expenses_list =
              UnionOfTables("grdvOperatingExpenses", OperatingNoData, OperatingRowSkipped,
                            LAMBDA row, p : OperatingRecord(row, TheId))
        /\ additional_expenses_list =
              UnionOfTables("grdvAdditionalExpenses", AdditionalNoData,
                            AdditionalRowSkipped,
                            LAMBDA row, p : AdditionalRecord(row, TheId))
        /\ IsLobbyist(1) =>
              lobbying_activities_list =
                  UnionOfTables("grdvActivitiesNew", <<"<no phrase>">>, ActivityRowSkipped,
                                LAMBDA row, p :
                                    ActivityRecord(row, TheId,
                                        ResolveLobbyist(TheDoc, p, PrimaryFilerName),
                                        ResolveClient(TheDoc, p, Employer)))

\* The amounts of the records of a collection.
AmountsOf(list) == {list[n].amount : n \in 1..Len(list)}

(***************************************************************************)
(* C13: every amount field of every emitted record is a non-negative       *)
(* number: whatever the text of the cell, clean_currency returns a value   *)
(* that is at least 0 (0.0 for empty, null or unparsable text).            *)
(***************************************************************************)
C13_AmountsNonNegative ==
    \A a \in AmountsOf(compensations_list) \cup AmountsOf(lobbying_activities_list)
             \cup AmountsOf(met_expenses_list) \cup AmountsOf(operating_expenses_list)
             \cup AmountsOf(additional_expenses_list) \cup AmountsOf(contributions_list) :
        a.kind = "num" /\ a.cents >= 0

(***************************************************************************)
(* C14: a processed document whose header text holds "Lobbyist" gets       *)
(* report_type Lobbyist, one LobbyistRecord and no ClientRecord or         *)
(* CompensationRecord; a processed document with any other header text     *)
(* gets report_type Client, one ClientRecord and no LobbyistRecord,        *)
(* LobbyingActivityRecord or ContributionRecord, whatever tables it holds. *)
(***************************************************************************)
C14_VariantDispatch ==
    OneExtracted =>
        /\ Len(disclosure_reports_list) = 1
        /\ IF Contains(TheDoc.header, <<"Lobbyist">>)
           THEN /\ disclosure_reports_list[1].report_type = "Lobbyist"
                /\ Len(lobbyists_list) = 1 /\ Len(df_lobbyists) = 1
                /\ clients_list = << >> /\ df_clients = << >>
                /\ compensations_list = << >>
           ELSE /\ disclosure_reports_list[1].report_type = "Client"
                /\ Len(clients_list) = 1 /\ Len(df_clients) = 1
                /\ lobbyists_list = << >> /\ df_lobbyists = << >>
                /\ lobbying_activities_list = << >>
                /\ contributions_list = << >>

\* A Client filing that holds an activity table and a contributions table
\* with data rows was processed.
C14_Witness ==
    /\ OneExtracted
    /\ ~Contains(TheDoc.header, <<"Lobbyist">>)
    /\ \E p, q \in 1..Len(TheDoc.body) :
          /\ TheDoc.body[p].id = "grdvActivitiesNew"
          /\ TheDoc.body[q].id = "grdvCampaignContribution"
          /\ ~Contains(TableText(TheDoc.body[q]), ContributionsNoData)
    /\ Len(clients_list) = 1
    /\ lobbying_activities_list = << >>

\* The value of the sysvalue parameter of a locator, or PyNone without one.
ValueOf(u) ==
    IF \E k \in 1..Len(u) : u[k] = "sysvalue="
    THEN LET k == CHOOSE j \in 1..Len(u) :
                      u[j] = "sysvalue=" /\ \A h \in 1..(j - 1) : u[h] # "sysvalue="
         IN  SubSeq(u, k + 1, Len(u))
    ELSE PyNone

\* The locators the file at position k may have been fetched from.
LocatorsOf(k) == {u \in Locators : SavedFilename(u) = all_files[k]}

\* Every document of the batch was extracted to the end, so that record k
\* of the DisclosureReport collection is that of the file at position k.
AllExtracted == pc = "done" /\ \A k \in Positions : Extracted(k)

(***************************************************************************)
(* C15: a document fetched from a locator with sysvalue=V gets the         *)
(* disclosure_id V with every %2f replaced by /; a file whose name holds   *)
(* no sysvalue= gets its name without the extension; documents fetched     *)
(* from locators with different values never get the same disclosure_id.   *)
(***************************************************************************)
C15_IdFromLocator ==
    AllExtracted =>
        /\ \A k \in Positions : \A u \in LocatorsOf(k) :
              disclosure_reports_list[k].disclosure_id =
                  IF ValueOf(u) # PyNone
                  THEN Replace(ValueOf(u), <<"%2f">>, <<"/">>)
                  ELSE SubSeq(all_files[k], 1, Len(all_files[k]) - 1)
        /\ \A j, k \in Positions : \A u \in LocatorsOf(j), v \in LocatorsOf(k) :
              (ValueOf(u) # PyNone /\ ValueOf(v) # PyNone /\ ValueOf(u) # ValueOf(v)) =>
                  disclosure_reports_list[j].disclosure_id
                      # disclosure_reports_list[k].disclosure_id

\* The records of a collection that carry one identifier, in order.
RecordsOfId(list, id) == SelectSeq(list, LAMBDA r : r.disclosure_id = id)

\* The documents at positions j and k, both extracted, have the same markup
\* and the same identifier, and no third document dealt with has it.
SameDocument(j, k) ==
    /\ j < k /\ Handled(k)
    /\ Extracted(j) /\ Extracted(k)
    /\ DocAt(j) = DocAt(k) /\ IdAt(j) = IdAt(k)
    /\ \A h \in Positions \ {j, k} : Handled(h) => IdAt(h) # IdAt(k)

LayoutName(p, tag) ==
    LET q == FindPreviousLabel(TheDoc, p, tag, "Client:")
    IN  IF q # 0 /\ TheDoc.body[q].sibling # PyNone
        THEN Strip(TheDoc.body[q].sibling) ELSE PyNone

(***************************************************************************)
(* C17: the client name of an activity table is the name the two-cell row  *)
(* layout yields; when that layout yields none (no Client: cell before the *)
(* table, or one with no cell after it) it is the name the label-plus-span *)
(* layout yields; it is the employer name only when neither yields a name. *)
(***************************************************************************)
C17_RowLayoutThenSpanLayout ==
    OneLobbyist =>
        lobbying_activities_list =
            ActivitiesStamped(
                LAMBDA p : ResolveLobbyist(TheDoc, p, PrimaryFilerName),
                LAMBDA p : IF LayoutName(p, "td") # PyNone THEN LayoutName(p, "td")
                           ELSE IF LayoutName(p, "strong") # PyNone
                                THEN LayoutName(p, "strong")
                                ELSE Employer)

\* main() has ended: after the summary and the outputs, or by an exception.
RunEnded == pc \in {"done", "aborted"}

(***************************************************************************)
(* C18: when a run over the documents found has ended, every document is   *)
(* counted in exactly one outcome: processed_count + skipped_no_header +   *)
(* skipped_other_error is the number of documents found, and the skip log  *)
(* written holds one line per skipped document and none for the others.    *)
(***************************************************************************)
C18_EveryDocumentCounted ==
    RunEnded =>
        /\ processed_count + skipped_no_header + skipped_other_error = Len(all_files)
        /\ Len(skipped_files_txt) = skipped_no_header + skipped_other_error
        /\ \A k \in Positions :
              Cardinality(LogFor(skipped_files_txt, k)) =
                  IF Extracted(k) THEN 0 ELSE 1

(***************************************************************************)
(* C19: the DisclosureReport collection written at the end of a run holds  *)
(* at most one row per disclosure_id, also when two documents of the batch *)
(* derive the same identifier (disclosure_id is the primary key of the     *)
(* table disclosure_reports the collection is loaded into).                *)
(***************************************************************************)
C19_OneReportPerId ==
    pc = "done" =>
        \A n, m \in 1..Len(df_reports) :
            n # m => df_reports[n].disclosure_id # df_reports[m].disclosure_id

\* The statuses a call of scrape_url may leave.
FinalStatuses ==
    {"completed", "failed_driver_not_found", "failed_small_file", "failed_exception"}

\* What holds of the call for url at every moment, when it calls
\* update_status, and once it has returned.
CallWithinLimits(url) ==
    LET call == workers[url]
    IN  /\ call.fetches <= 2
        /\ call.fetches = 2 =>
              (call.saved # << >> /\ call.saved[1] < MIN_FILE_SIZE_BYTES)
        /\ call.pc = "update" =>
              /\ call.status \in FinalStatuses
              /\ call.status = "completed" =>
                    /\ call.saved # << >>
                    /\ call.saved[Len(call.saved)] >= MIN_FILE_SIZE_BYTES
        /\ call.pc = "returned" =>
              /\ state[url] = call.status
              /\ state[url] \in FinalStatuses
              /\ state[url] = "completed" =>
                    /\ SavedFilename(url) \in DOMAIN html_output
                    /\ html_output[SavedFilename(url)] >= MIN_FILE_SIZE_BYTES

\* A call that has not returned can take a step, or waits for the lock that
\* a call about to release it holds.
CallCanGoOn(url) ==
    workers[url].pc # "returned" =>
        \/ ENABLED ScrapeUrl(url)
        \/ /\ workers[url].pc = "update"
           /\ lock # Unlocked
           /\ lock \in DOMAIN workers
           /\ workers[lock].pc \in {"locked", "save", "dump", "saved"}

\* A bound on the steps a call has left: it falls with every step.
StepsLeft(call) ==
    (IF call.attempt = 0 /\ call.pc \in {"start", "get", "write", "size"}
     THEN 10 ELSE 0)
    + (CASE call.pc = "start" -> 10
         [] call.pc = "get" -> 9
         [] call.pc = "write" -> 8
         [] call.pc = "size" -> 7
         [] call.pc = "update" -> 6
         [] call.pc = "locked" -> 5
         [] call.pc = "save" -> 4
         [] call.pc = "dump" -> 3
         [] call.pc = "saved" -> 2
         [] OTHER -> 1)

InUpdate ==
    {url \in DOMAIN workers : workers[url].pc \in {"locked", "save", "dump", "saved"}}

\* The last status written for url: the one its call passed to
\* update_status, and for a url the pool was not given (line 59 leaves
\* out the completed ones only), the 'completed' of an earlier run.
LastWritten(url) ==
    IF url \in DOMAIN workers THEN workers[url].status ELSE "completed"

(***************************************************************************)
(* C22: under any interleaving of the worker threads that call             *)
(* update_status, at most one thread is inside the locked block and at     *)
(* most one has state.json open for writing; the status of a call that has *)
(* returned stays in the in-memory state, and is in state.json whenever no *)
(* thread is writing the file; when all workers have finished, the         *)
(* in-memory state and state.json agree and hold, for every url, the last  *)
(* status written for it.                                                  *)
(***************************************************************************)
C22_NoLostUpdate ==
    /\ Cardinality(InUpdate) <= 1
    /\ Cardinality(writing) <= 1
    /\ writing \subseteq InUpdate
    /\ \A url \in DOMAIN workers :
          workers[url].pc = "returned" =>
              /\ url \in DOMAIN state
              /\ state[url] = workers[url].status
              /\ writing = {} =>
                    /\ url \in DOMAIN state_file
                    /\ state_file[url] = workers[url].status
    /\ AllReturned =>
          /\ state_file = state
          /\ \A url \in DOMAIN state : state[url] = LastWritten(url)

\* Two workers have finished with different statuses, both in state.json.
C22_Witness ==
    /\ AllReturned
    /\ \E u, v \in DOMAIN workers :
          /\ workers[u].status = "completed"
          /\ workers[v].status = "failed_exception"
          /\ state_file[u] = "completed"
          /\ state_file[v] = "failed_exception"

\* The status of url in a state dictionary is 'completed'.
Completed(st, url) == url \in DOMAIN st /\ st[url] = "completed"

\* A step that begins a run: once the pool has shut down nothing else
\* changes the fetcher.
RunStarts == AllReturned /\ fetcher' # fetcher

\* A step that hands url to the pool.
Selected(url) ==
    /\ url \in DOMAIN workers'
    /\ workers'[url] = NewCall
    /\ ~(url \in DOMAIN workers /\ workers[url] = NewCall)

(***************************************************************************)
(* C21: across the runs of the fetcher that share state.json, a url whose  *)
(* persisted status is 'completed' is never selected again and its status  *)
(* never changes; initialize_urls never overwrites a status that           *)
(* state.json holds; and every url with another status is selected by the  *)
(* next run.  A 'completed' in state.json is also in the in-memory state,  *)
(* where it stays, and every later save writes the in-memory state.        *)
(***************************************************************************)
C21_CompletedIsFinal ==
    /\ [](\A url \in ScrapeUrls :
             /\ Completed(state_file, url) => Completed(state, url)
             /\ Completed(state, url) =>
                   (url \in DOMAIN workers => workers[url].status = "completed"))
    /\ [][\A url \in ScrapeUrls :
             /\ Completed(state, url) => Completed(state', url) /\ ~Selected(url)
             /\ (Completed(state_file, url) /\ writing' = {}) =>
                   Completed(state_file', url)
             /\ (RunStarts /\ url \in DOMAIN state_file) =>
                   /\ state'[url] = state_file[url]
                   /\ state_file'[url] = state_file[url]
                   /\ state_file[url] # "completed" => Selected(url)
             /\ (RunStarts /\ Completed(state_file, url)) =>
                   url \notin DOMAIN workers']_vars

\* A later run: the url an earlier run completed is left out, the url it
\* failed on has been handed to the pool again.
C21_Witness ==
    \E u, v \in DOMAIN state_file :
        /\ state_file[u] = "completed"
        /\ u \notin DOMAIN workers
        /\ SavedFilename(u) \in DOMAIN html_output
        /\ state_file[v] = "failed_small_file"
        /\ v \in DOMAIN workers
        /\ workers[v] = NewCall

SpecResolver == InitResolver /\ [][Next]_vars

SpecTables == InitTables /\ [][Next]_vars

SpecLocators == InitLocators /\ [][Next]_vars

SpecScraper == InitScraper /\ [][NextScraper]_vars

SpecRuns == InitRuns /\ [][NextRuns]_vars

=============================================================================
